---- MODULE Spec2Model ----
(***************************************************************************)
(* Session stores of the MCP servers (SSE and Streamable HTTP), their      *)
(* shutdown sweep, and the unified client aggregator of                    *)
(* mvrzan/heroku-agentforce-mcp.                                           *)
(*                                                                         *)
(* Session ids are integers: NoSid is an absent or empty id, a positive    *)
(* number n is the n-th result of randomUUID(), and ProtoKey is a header   *)
(* value such as "constructor" that names a property every plain           *)
(* JavaScript object inherits from Object.prototype.                       *)
(***************************************************************************)
EXTENDS Integers, Sequences, FiniteSets, TLC

\* ------------------------------------------------------------------ bounds
MaxTransports == 2
MaxPending == 1

\* --------------------------------------------------------------- constants
NoSid == 0
ProtoKey == -1
Undefined == 0
Inherited == -1

VARIABLES
  layout,          \* "monolith": handlers and sweep share the stores; "modular": controllers own them
  transports,      \* every transport object constructed so far; the index is its identity
  uuids,           \* number of randomUUID() results handed out
  servers,         \* number of MCP server instances created
  sseTransports,   \* the SSE store, in insertion order: <<[sid, t], ...>>
  httpTransports,  \* the Streamable HTTP store, in insertion order
  pending,         \* handler invocations suspended at an await
  lastResp,        \* the last HTTP response a handler wrote
  shutdown,        \* the shutdown sweep: its position and what it closed
  removedIds       \* session ids an onclose handler has removed (history)

VARIABLES
  variant,          \* which copy of the aggregator runs: "unified", "part015" or "index"
  clients,          \* the connection list handed to the constructor
  at,               \* where the aggregator is
  ci,               \* index of the connection a loop is at
  unifiedTools,     \* the tool catalog
  unifiedResources, \* the resource catalog
  asked,            \* connections whose call, in the current loop, has returned (history)
  wm,               \* workingMessages of the current processQuery call
  toolUses,         \* the tool_use items of the first completion response
  ti,               \* index of the tool_use item being dispatched
  calls,            \* every callTool invocation of the current processQuery call (history)
  toolResults,      \* the tool_result blocks collected so far
  completions,      \* the completion calls made so far (history)
  ret               \* what processQuery returned

VARIABLES
  chat,             \* the single-server client (MCPClient): its history and its call
  proc              \* a weather server process: its environment and the request it serves

ovars == <<chat, proc>>

cvars == <<variant, clients, at, ci, unifiedTools, unifiedResources, asked, wm,
           toolUses, ti, calls, toolResults, completions, ret>>

svars == <<layout, transports, uuids, servers, sseTransports, httpTransports,
           pending, lastResp, shutdown, removedIds>>

\* ------------------------------------------------------------ store helpers
Keys(store) == {store[i].sid : i \in DOMAIN store}

EntryOf(store, sid) == store[CHOOSE i \in DOMAIN store : store[i].sid = sid]

Remove(store, sid) == SelectSeq(store, LAMBDA e : e.sid # sid)

StoredTransports(store) == {store[i].t : i \in DOMAIN store}

\* Map.prototype.get: own entries only.
MapGet(store, sid) == IF sid \in Keys(store) THEN EntryOf(store, sid).t ELSE Undefined

\* A store with room for one session: a new entry replaces what was there.
MapSetSingle(store, sid, t) == <<[sid |-> sid, t |-> t]>>

\* Map.prototype.set: a new key is appended, an existing key keeps its place.
MapSet(store, sid, t) ==
  IF sid \in Keys(store)
  THEN [i \in DOMAIN store |-> IF store[i].sid = sid THEN [sid |-> sid, t |-> t] ELSE store[i]]
  ELSE Append(store, [sid |-> sid, t |-> t])

\* obj[key] on a plain object {}: an own property, else what Object.prototype has.
ObjGet(store, sid) ==
  IF sid \in Keys(store) THEN EntryOf(store, sid).t
  ELSE IF sid = ProtoKey THEN Inherited
  ELSE Undefined

Truthy(v) == v # Undefined

IsTransport(v) == v >= 1

\* A callback that stores a stale transport instead of the one it belongs to.
OnSessionInitializedStale(store, sid, t) == MapSet(store, sid, 1)

\* A callback that stores nothing.
OnSessionInitializedLost(store, sid, t) == store

\* httpTransports[sessionId] = transport, in onsessioninitialized.
OnSessionInitialized(store, sid, t) == MapSet(store, sid, t)

\* sseTransports.set(sessionId, transport), in the GET /sse handler.
SseStore(store, sid, t) == MapSet(store, sid, t)

\* transport.onclose of a Streamable HTTP transport.
HttpOnClose(store, sid) ==
  IF sid # NoSid /\ Truthy(ObjGet(store, sid)) THEN Remove(store, sid) ELSE store

\* An onclose handler that forgets to delete.
SseOnCloseKeeps(store, sid) == store

\* transport.onclose of an SSE transport: sseTransports.delete(sessionId).
SseOnClose(store, sid) == Remove(store, sid)

\* A lookup that ignores the key and takes the first stored transport.
HttpLookupFirst(store, sid) ==
  IF sid \in Keys(store) THEN store[1].t ELSE ObjGet(store, sid)

\* The transport the Streamable HTTP handler picks for a request bearing sid.
HttpLookup(store, sid) == ObjGet(store, sid)

\* The transport the /messages handler picks.
SseLookup(store, sid) == MapGet(store, sid)

NoResp == [route |-> "none", sid |-> NoSid, init |-> FALSE, status |-> 0, known |-> FALSE]

Resp(route, sid, init, status, known) ==
  [route |-> route, sid |-> sid, init |-> init, status |-> status, known |-> known]

Running == shutdown.pc # "exited"

\* The session ids a client may present: none, the name of an inherited
\* property, every UUID handed out so far and one that was not.
ClientSids == {NoSid, ProtoKey} \cup (1 .. uuids + 1)

SetState(t, s) == [transports EXCEPT ![t].state = s]

Suspend(p) == pending' = pending \cup {p}

\* Requests handed to a stored transport and not yet answered.
InFlight == {p \in pending : p.known}

Susp(route, pc, sid, init, t, known) ==
  [route |-> route, pc |-> pc, sid |-> sid, init |-> init, t |-> t, known |-> known]

\* ------------------------------------------------- Streamable HTTP handler
\* POST /http (HTTPFunction, mcpPostHandler) up to its first await.
HTTPFunction(sid, init) ==
  /\ Running
  /\ LET v == HttpLookup(httpTransports, sid) IN
     IF sid # NoSid /\ Truthy(v) THEN
       IF IsTransport(v) THEN
         \* reuse: await transport.handleRequest(req, res, req.body)
         /\ Cardinality(InFlight) < MaxPending
         /\ Suspend(Susp("http", "handleRequest", sid, init, v, TRUE))
         /\ UNCHANGED <<cvars, ovars>> /\ UNCHANGED <<layout, transports, uuids, servers, sseTransports,
                        httpTransports, lastResp, shutdown, removedIds>>
       ELSE
         \* the inherited value has no handleRequest: TypeError, caught, 500
         /\ lastResp' = Resp("http", sid, init, 500, FALSE)
         /\ UNCHANGED <<cvars, ovars>> /\ UNCHANGED <<layout, transports, uuids, servers, sseTransports,
                        httpTransports, pending, shutdown, removedIds>>
     ELSE IF sid = NoSid /\ init THEN
       \* new transport, new server, await server.connect(transport)
       /\ Len(transports) < MaxTransports
       /\ transports' = Append(transports,
                          [kind |-> "http", sessionId |-> NoSid, state |-> "created"])
       /\ servers' = servers + 1
       /\ Suspend(Susp("http", "connect", NoSid, TRUE, Len(transports) + 1, FALSE))
       /\ UNCHANGED <<cvars, ovars>> /\ UNCHANGED <<layout, uuids, sseTransports, httpTransports, lastResp,
                      shutdown, removedIds>>
     ELSE
       /\ lastResp' = Resp("http", sid, init, 400, FALSE)
       /\ UNCHANGED <<cvars, ovars>> /\ UNCHANGED <<layout, transports, uuids, servers, sseTransports,
                      httpTransports, pending, shutdown, removedIds>>

\* server.connect(transport) settles for an initialize request. On success the
\* handler calls transport.handleRequest, whose synchronous part mints the
\* session id and runs onsessioninitialized (unless the SDK rejects the request).
HttpConnectDone(p, ok, accepted) ==
  /\ Running
  /\ p \in pending /\ p.route = "http" /\ p.pc = "connect"
  /\ IF ~ok THEN
       /\ pending' = pending \ {p}
       /\ lastResp' = Resp("http", NoSid, TRUE, 500, FALSE)
       /\ UNCHANGED <<cvars, ovars>> /\ UNCHANGED <<layout, transports, uuids, servers, sseTransports,
                      httpTransports, shutdown, removedIds>>
     ELSE IF accepted THEN
       LET sid == uuids + 1 IN
       /\ uuids' = sid
       /\ transports' = [transports EXCEPT ![p.t].sessionId = sid,
                                           ![p.t].state = "connected"]
       /\ httpTransports' = OnSessionInitialized(httpTransports, sid, p.t)
       /\ pending' = (pending \ {p}) \cup {[p EXCEPT !.pc = "handleRequest"]}
       /\ UNCHANGED <<cvars, ovars>> /\ UNCHANGED <<layout, servers, sseTransports, lastResp, shutdown, removedIds>>
     ELSE
       /\ transports' = SetState(p.t, "connected")
       /\ pending' = pending \ {p}
       /\ lastResp' = Resp("http", NoSid, TRUE, 400, FALSE)
       /\ UNCHANGED <<cvars, ovars>> /\ UNCHANGED <<layout, uuids, servers, sseTransports, httpTransports,
                      shutdown, removedIds>>

\* What the SDK's handleRequest answers: an initialize request on a transport
\* that is already initialized is refused (400), anything else is served.
HandleRequestStatus(p) == IF p.known /\ p.init THEN 400 ELSE 200

\* transport.handleRequest settles.
HttpHandleDone(p) ==
  /\ Running
  /\ p \in pending /\ p.route = "http" /\ p.pc = "handleRequest"
  /\ pending' = pending \ {p}
  /\ lastResp' = Resp("http", p.sid, p.init, HandleRequestStatus(p), p.known)
  /\ UNCHANGED <<cvars, ovars>> /\ UNCHANGED <<layout, transports, uuids, servers, sseTransports,
                 httpTransports, shutdown, removedIds>>

\* ------------------------------------------------------------ SSE handlers
\* GET /sse up to await server.connect(transport).
SSEFunction ==
  /\ Running
  /\ Len(transports) < MaxTransports
  /\ LET sid == uuids + 1
         t == Len(transports) + 1 IN
     /\ uuids' = sid
     /\ transports' = Append(transports,
                        [kind |-> "sse", sessionId |-> sid, state |-> "created"])
     /\ sseTransports' = SseStore(sseTransports, sid, t)
     /\ servers' = servers + 1
     /\ Suspend(Susp("sse", "connect", sid, FALSE, t, FALSE))
  /\ UNCHANGED <<cvars, ovars>> /\ UNCHANGED <<layout, httpTransports, lastResp, shutdown, removedIds>>

SseConnectDone(p, ok) ==
  /\ Running
  /\ p \in pending /\ p.route = "sse" /\ p.pc = "connect"
  /\ pending' = pending \ {p}
  /\ IF ok
     THEN /\ transports' = IF transports[p.t].state = "created"
                           THEN SetState(p.t, "connected") ELSE transports
          /\ lastResp' = Resp("sse", p.sid, FALSE, 200, FALSE)
     ELSE /\ transports' = transports
          /\ lastResp' = Resp("sse", p.sid, FALSE, 500, FALSE)
  /\ UNCHANGED <<cvars, ovars>> /\ UNCHANGED <<layout, uuids, servers, sseTransports, httpTransports,
                 shutdown, removedIds>>

\* POST /messages?sessionId=... up to await transport.handlePostMessage.
messages(sid) ==
  /\ Running
  /\ IF sid = NoSid THEN
       /\ lastResp' = Resp("msg", sid, FALSE, 400, FALSE)
       /\ UNCHANGED pending
     ELSE IF ~Truthy(SseLookup(sseTransports, sid)) THEN
       /\ lastResp' = Resp("msg", sid, FALSE, 404, FALSE)
       /\ UNCHANGED pending
     ELSE
       /\ Cardinality(InFlight) < MaxPending
       /\ Suspend(Susp("msg", "handlePostMessage", sid, FALSE,
                       SseLookup(sseTransports, sid), TRUE))
       /\ UNCHANGED lastResp
  /\ UNCHANGED <<cvars, ovars>> /\ UNCHANGED <<layout, transports, uuids, servers, sseTransports,
                 httpTransports, shutdown, removedIds>>

\* What the SDK's handlePostMessage answers: 202 on an established stream,
\* 500 when the stream is not (or no longer) established.
HandlePostMessageStatus(p) == IF transports[p.t].state = "connected" THEN 202 ELSE 500

\* transport.handlePostMessage settles.
MessagesDone(p) ==
  /\ Running
  /\ p \in pending /\ p.route = "msg"
  /\ pending' = pending \ {p}
  /\ lastResp' = Resp("msg", p.sid, FALSE, HandlePostMessageStatus(p), p.known)
  /\ UNCHANGED <<cvars, ovars>> /\ UNCHANGED <<layout, transports, uuids, servers, sseTransports,
                 httpTransports, shutdown, removedIds>>

\* ---------------------------------------------------------------- closure
\* The stores after transport t has run its onclose handler.
SseAfterClose(sse, t) ==
  IF transports[t].kind = "sse" THEN SseOnClose(sse, transports[t].sessionId) ELSE sse

HttpAfterClose(http, t) ==
  IF transports[t].kind = "http" THEN HttpOnClose(http, transports[t].sessionId) ELSE http

RemovedBy(t) ==
  IF transports[t].sessionId \in Keys(sseTransports) \cup Keys(httpTransports)
  THEN {transports[t].sessionId} ELSE {}

\* The SDK invokes transport.onclose (the client went away, or the transport
\* was closed from outside the sweep).
TransportClosed(t) ==
  /\ Running
  /\ t \in DOMAIN transports
  /\ transports[t].state = "connected"
  /\ transports' = SetState(t, "closed")
  /\ sseTransports' = SseAfterClose(sseTransports, t)
  /\ httpTransports' = HttpAfterClose(httpTransports, t)
  /\ removedIds' = removedIds \cup RemovedBy(t)
  /\ UNCHANGED <<cvars, ovars>> /\ UNCHANGED <<layout, uuids, servers, pending, lastResp, shutdown>>

\* ----------------------------------------------------------- shutdown sweep
\* The stores gracefulShutdown iterates. The single-file server iterates the
\* maps its handlers fill; the modular server's index.ts declares maps of its
\* own, which no handler writes, while the controllers keep theirs private.
SweepSseStore(sse) == IF layout = "monolith" THEN sse ELSE <<>>

SweepHttpStore(http) == IF layout = "monolith" THEN http ELSE <<>>

KeyList(store) == [i \in DOMAIN store |-> store[i].sid]

NoSweep ==
  [pc |-> "running", cur |-> NoSid, curOk |-> FALSE, visited |-> {}, keys |-> <<>>,
   closeCalls |-> {}, atSignal |-> {}]

\* What close() does to a transport: "ok" closes it and runs onclose, "threwLate"
\* runs onclose and then rejects, "threw" rejects before anything happened.
CloseEffect(t, outcome, sse, http) ==
  [transports |-> IF outcome = "threw" THEN transports ELSE SetState(t, "closed"),
   sse        |-> IF outcome = "threw" THEN sse ELSE SseAfterClose(sse, t),
   http       |-> IF outcome = "threw" THEN http ELSE HttpAfterClose(http, t),
   removed    |-> IF outcome = "threw" THEN {} ELSE {transports[t].sessionId}]

\* gracefulShutdown from the head of a loop to its next await: the next SSE
\* entry not yet visited (Map iteration is live), else the next key of the
\* for-in snapshot that is still a property, else httpServer.close().
SweepFrom(phase, sse, http, sd, outcome) ==
  LET sweepSse == SweepSseStore(sse)
      sweepHttp == SweepHttpStore(http)
      unvisited == SelectSeq(sweepSse, LAMBDA e : e.sid \notin sd.visited)
      keys == IF phase = "sse" THEN KeyList(sweepHttp) ELSE sd.keys
      remaining == SelectSeq(keys, LAMBDA k : k \in Keys(sweepHttp))
  IN
  IF phase = "sse" /\ unvisited # <<>> THEN
    LET e == Head(unvisited)
        eff == CloseEffect(e.t, outcome, sse, http) IN
    /\ transports' = eff.transports
    /\ sseTransports' = eff.sse
    /\ httpTransports' = eff.http
    /\ removedIds' = removedIds \cup eff.removed
    /\ shutdown' = [sd EXCEPT !.pc = "sseLoop", !.cur = e.sid, !.curOk = (outcome = "ok"),
                              !.visited = @ \cup {e.sid}, !.closeCalls = @ \cup {e.t}]
  ELSE IF remaining # <<>> THEN
    LET k == Head(remaining)
        t == EntryOf(sweepHttp, k).t
        eff == CloseEffect(t, outcome, sse, http) IN
    /\ transports' = eff.transports
    /\ sseTransports' = eff.sse
    /\ httpTransports' = eff.http
    /\ removedIds' = removedIds \cup eff.removed
    /\ shutdown' = [sd EXCEPT !.pc = "httpLoop", !.cur = k, !.curOk = (outcome = "ok"),
                              !.keys = Tail(remaining), !.closeCalls = @ \cup {t}]
  ELSE
    /\ outcome = "ok"
    /\ sseTransports' = sse
    /\ httpTransports' = http
    /\ shutdown' = [sd EXCEPT !.pc = "listener", !.cur = NoSid, !.keys = <<>>]
    /\ UNCHANGED <<transports, removedIds>>

\* SIGINT or SIGTERM: gracefulShutdown runs to its first await.
Signal(outcome) ==
  /\ shutdown.pc = "running"
  /\ SweepFrom("sse", sseTransports, httpTransports,
               [shutdown EXCEPT !.atSignal = StoredTransports(sseTransports)
                                             \cup StoredTransports(httpTransports)],
               outcome)
  /\ UNCHANGED <<cvars, ovars>> /\ UNCHANGED <<layout, uuids, servers, pending, lastResp>>

\* await transport.close() settles: the entry is deleted unless close() threw,
\* and the loop goes on to its next await.
SweepResume(outcome) ==
  /\ shutdown.pc \in {"sseLoop", "httpLoop"}
  /\ LET sse == IF shutdown.pc = "sseLoop" /\ shutdown.curOk
                THEN Remove(sseTransports, shutdown.cur) ELSE sseTransports
         http == IF shutdown.pc = "httpLoop" /\ shutdown.curOk
                 THEN Remove(httpTransports, shutdown.cur) ELSE httpTransports
     IN SweepFrom(IF shutdown.pc = "sseLoop" THEN "sse" ELSE "http", sse, http,
                  shutdown, outcome)
  /\ UNCHANGED <<cvars, ovars>> /\ UNCHANGED <<layout, uuids, servers, pending, lastResp>>

\* What keeps the listener from closing: a request a handler has not answered
\* yet, or the response stream of an SSE transport nobody closed.
OpenConnections ==
  \/ pending # {}
  \/ \E t \in DOMAIN transports :
       transports[t].kind = "sse" /\ transports[t].state = "connected"

\* The callback of httpServer.close(), run once every connection has ended:
\* process.exit(0).
ServerClosed ==
  /\ shutdown.pc = "listener"
  /\ ~OpenConnections
  /\ shutdown' = [shutdown EXCEPT !.pc = "exited"]
  /\ UNCHANGED <<cvars, ovars>> /\ UNCHANGED <<layout, transports, uuids, servers, sseTransports, httpTransports,
                 pending, lastResp, removedIds>>

CloseOutcomes == {"ok", "threw", "threwLate"}

\* ------------------------------------------------------------ specification
\* processQuery has not returned.
NoRet == [kind |-> "none", text |-> <<>>]

\* No single-server client runs.
NoChat ==
  [at |-> "off", messages |-> <<>>, wm |-> <<>>, uses |-> 0, idx |-> 0, response |-> "none",
   before |-> <<>>, sent |-> <<>>, q |-> 0, outcomes |-> <<>>]

\* No weather server process has been started.
NoProc ==
  [program |-> "none", env |-> {}, up |-> "off", instances |-> <<>>, handler |-> "none",
   token |-> "none", fault |-> "none", fetches |-> <<>>, adapters |-> <<>>, reply |-> [kind |-> "none", text |-> "none"]]

NoOthers == chat = NoChat /\ proc = NoProc

\* No aggregator runs beside the servers.
NoClient ==
  /\ variant = "unified"
  /\ clients = <<>>
  /\ at = "off"
  /\ ci = 0
  /\ unifiedTools = <<>>
  /\ unifiedResources = <<>>
  /\ asked = <<>>
  /\ wm = <<>>
  /\ toolUses = <<>>
  /\ ti = 0
  /\ calls = <<>>
  /\ toolResults = <<>>
  /\ completions = <<>>
  /\ ret = NoRet

Init ==
  /\ NoClient
  /\ NoOthers
  /\ layout \in {"monolith", "modular"}
  /\ transports = <<>>
  /\ uuids = 0
  /\ servers = 0
  /\ sseTransports = <<>>
  /\ httpTransports = <<>>
  /\ pending = {}
  /\ lastResp = NoResp
  /\ shutdown = NoSweep
  /\ removedIds = {}

NextSessions ==
  \/ \E sid \in ClientSids, init \in BOOLEAN : HTTPFunction(sid, init)
  \/ \E p \in pending, ok \in BOOLEAN, accepted \in BOOLEAN : HttpConnectDone(p, ok, accepted)
  \/ \E p \in pending : HttpHandleDone(p)
  \/ SSEFunction
  \/ \E p \in pending, ok \in BOOLEAN : SseConnectDone(p, ok)
  \/ \E sid \in ClientSids : messages(sid)
  \/ \E p \in pending : MessagesDone(p)
  \/ \E t \in DOMAIN transports : TransportClosed(t)

NextSweep ==
  \/ HTTPFunction(NoSid, TRUE)
  \/ \E p \in pending, ok \in BOOLEAN, accepted \in BOOLEAN : HttpConnectDone(p, ok, accepted)
  \/ \E p \in pending : HttpHandleDone(p)
  \/ SSEFunction
  \/ \E p \in pending, ok \in BOOLEAN : SseConnectDone(p, ok)
  \/ \E t \in DOMAIN transports : TransportClosed(t)
  \/ \E outcome \in CloseOutcomes : Signal(outcome)
  \/ \E outcome \in CloseOutcomes : SweepResume(outcome)
  \/ ServerClosed

InitSessions == Init /\ layout = "modular"

\* Requests, session creation and closure, without a shutdown signal.
vars == <<svars, cvars, ovars>>

Spec == InitSessions /\ [][NextSessions]_vars

\* Session creation and closure racing with the shutdown sweep.
SpecSweep == Init /\ [][NextSweep]_vars

\* The same, with what the event loop guarantees: a handler suspended at an
\* await is resumed, an awaited close() settles, and the listener's callback
\* runs once it can. When a client ends its stream is the client's choice.
SweepFairness ==
  /\ WF_vars(\E p \in pending, ok \in BOOLEAN, accepted \in BOOLEAN : HttpConnectDone(p, ok, accepted))
  /\ WF_vars(\E p \in pending : HttpHandleDone(p))
  /\ WF_vars(\E p \in pending, ok \in BOOLEAN : SseConnectDone(p, ok))
  /\ WF_vars(\E outcome \in CloseOutcomes : SweepResume(outcome))
  /\ WF_vars(ServerClosed)

SpecSweepLive == SpecSweep /\ SweepFairness

\* ------------------------------------------------------------------ claims
ClientError(route) == IF route = "http" THEN 400 ELSE 404

\* A handler answered, in this step, a request whose non-empty session id was
\* not a key of its store.
RejectedUnknown ==
  /\ lastResp' # lastResp
  /\ lastResp'.route \in {"http", "msg"}
  /\ lastResp'.sid # NoSid
  /\ ~lastResp'.known

\* C1: a request with a non-empty session id that is not a key of the store is
\* answered 400 (Streamable HTTP) or 404 (/messages), nothing is constructed
\* and both stores stay as they were.
C1_UnknownSidIsClientError ==
  [][RejectedUnknown =>
       /\ lastResp'.status = ClientError(lastResp'.route)
       /\ transports' = transports
       /\ servers' = servers
       /\ sseTransports' = sseTransports
       /\ httpTransports' = httpTransports]_vars

\* C2: a request bearing an id that is in the Streamable HTTP store is handed
\* to the one transport that was given that id at initialization, whatever its
\* body is; the handler rejects no such request and constructs no transport
\* and no server for it.
C2_KnownSidReusesTransport ==
  [][/\ \A p \in pending' \ pending :
          (p.route = "http" /\ p.known) =>
            /\ p.sid \in Keys(httpTransports)
            /\ transports[p.t].kind = "http"
            /\ transports[p.t].sessionId = p.sid
            /\ \A u \in DOMAIN transports' :
                 transports'[u].sessionId = p.sid => u = p.t
            /\ transports' = transports
            /\ servers' = servers
     /\ (lastResp' # lastResp /\ lastResp'.route = "http" /\ ~lastResp'.known)
          => lastResp'.sid \notin Keys(httpTransports)]_vars

\* Two requests in a row bear the same stored id, the second an initialize.
C2_Witness ==
  \E p \in pending :
    /\ p.route = "http" /\ p.known /\ p.init
    /\ lastResp.route = "http" /\ lastResp.known /\ lastResp.sid = p.sid
    /\ Len(transports) >= 2

StoreSound(store, kind) ==
  \A i \in DOMAIN store :
    /\ store[i].t \in DOMAIN transports
    /\ transports[store[i].t].kind = kind
    /\ transports[store[i].t].sessionId = store[i].sid
    /\ \A j \in DOMAIN store :
         (store[j].sid = store[i].sid \/ store[j].t = store[i].t) => j = i

\* C3: in both stores each key maps to one transport, whose own sessionId is
\* the key, and no transport is stored under two keys.
C3_OneTransportPerSession ==
  /\ StoreSound(sseTransports, "sse")
  /\ StoreSound(httpTransports, "http")

C3_Witness == Len(httpTransports) >= 1 /\ Len(sseTransports) + Len(httpTransports) >= 2

\* Transport t signals closure in this step.
Closes(t) == transports[t].state # "closed" /\ transports'[t].state = "closed"

\* C4: when a stored transport signals closure its id leaves the store and the
\* other entries stay; the id never comes back, and a later request bearing it
\* is rejected as an unknown session, never routed to a transport.
C4_CloseRemovesSession ==
  [][/\ \A t \in DOMAIN transports :
          Closes(t) =>
            /\ sseTransports' = Remove(sseTransports, transports[t].sessionId)
            /\ httpTransports' = Remove(httpTransports, transports[t].sessionId)
            /\ transports[t].sessionId \notin Keys(sseTransports') \cup Keys(httpTransports')
     /\ \A sid \in removedIds :
          /\ sid \notin Keys(sseTransports') \cup Keys(httpTransports')
          /\ \A p \in pending' \ pending : p.sid # sid
          /\ (lastResp' # lastResp /\ lastResp'.sid = sid /\ ~lastResp'.known)
               => lastResp'.status = ClientError(lastResp'.route)]_vars

\* A request bearing a removed id was rejected while another session lives on.
C4_Witness ==
  /\ lastResp.sid \in removedIds
  /\ ~lastResp.known
  /\ lastResp.route \in {"http", "msg"}
  /\ Len(sseTransports) + Len(httpTransports) >= 1

SweepDone == shutdown.pc \in {"listener", "exited"}

\* C5: once the shutdown sweep is through, close() has been called on the
\* transport of every session the handlers had stored when the signal came
\* (unless that transport had closed by itself), also after a close() threw.
C5_SweepClosesStoredSessions ==
  SweepDone =>
    \A t \in shutdown.atSignal :
      t \in shutdown.closeCalls \/ transports[t].state = "closed"

\* ---------------------------------------------------------------------------
\* The unified client: one aggregator over a list of connections.  Three
\* copies of the class exist: "unified" (utils/UnifiedMCPClient.ts),
\* "part015" (the client's earlier index.ts) and "index" (the client's
\* index.ts).  The aggregator is sequential: one call runs at a time and
\* every step below is one awaited call with the code up to the next one.
\* ---------------------------------------------------------------------------

\* Connections of one aggregator.
MaxConns == 2

Variants == {"unified", "part015", "index"}

\* What a server's listTools() returns: get-alerts carries a description,
\* get-forecast none.
ServerTool(n) == [name |-> n, description |-> IF n = "get-alerts" THEN "alerts" ELSE ""]

ToolLists ==
  {<<>>, <<ServerTool("get-alerts")>>, <<ServerTool("get-forecast")>>,
   <<ServerTool("get-alerts"), ServerTool("get-forecast")>>}

\* What a server's listResources() returns.
ServerResource(u) == [name |-> "", uri |-> u]

ResourceLists ==
  {<<>>, <<ServerResource("file:///data.json")>>, <<ServerResource("file:///notes.txt")>>}

\* One connection: whether its client object exposes the MCP client handle,
\* and what its server answers to listTools() and listResources() (a list,
\* or a rejection).
NoHandle ==
  [handle |-> FALSE, toolsOk |-> FALSE, tools |-> <<>>, resOk |-> FALSE, resources |-> <<>>]

Connections ==
  {NoHandle}
    \cup {[handle |-> TRUE, toolsOk |-> tk, tools |-> ts, resOk |-> rk, resources |-> rs] :
            tk \in {TRUE}, ts \in ToolLists, rk \in {TRUE}, rs \in ResourceLists}
    \cup {[handle |-> TRUE, toolsOk |-> FALSE, tools |-> <<>>, resOk |-> TRUE, resources |-> rs] :
            rs \in ResourceLists}
    \cup {[handle |-> TRUE, toolsOk |-> TRUE, tools |-> ts, resOk |-> FALSE, resources |-> <<>>] :
            ts \in ToolLists}
    \cup {[handle |-> TRUE, toolsOk |-> FALSE, tools |-> <<>>, resOk |-> FALSE, resources |-> <<>>]}

ClientLists == UNION {[1 .. n -> Connections] : n \in 1 .. MaxConns}

\* `${type}-Client-${clientNumber}`: one identifier per connection.
Identifier(i) == i

\* description || "No description"
OrDefault(v, d) == IF v = "" THEN d ELSE v

\* A catalog that keeps one tool per name, which initialize() does not do.
UnifiedToolDedupe(cat, tool, i) ==
  IF \E k \in 1 .. Len(cat) : cat[k].name = tool.name
    THEN cat
    ELSE Append(cat, [name |-> tool.name, description |-> tool.description,
                      source |-> Identifier(i), client |-> i])

\* clientTools.forEach: one catalog entry per listed tool.
UnifiedToolPush(cat, tool, i) ==
  Append(cat, [name |-> tool.name,
               description |-> OrDefault(tool.description, "No description"),
               source |-> Identifier(i),
               client |-> i])

RECURSIVE PushTools(_, _, _)
PushTools(cat, tools, i) ==
  IF tools = <<>> THEN cat
  ELSE PushTools(UnifiedToolPush(cat, Head(tools), i), Tail(tools), i)

RECURSIVE PushResources(_, _, _)
PushResources(cat, rs, i) ==
  IF rs = <<>> THEN cat
  ELSE PushResources(
         Append(cat, [name |-> OrDefault(Head(rs).name, "Unknown Resource"),
                      uri |-> OrDefault(Head(rs).uri, ""),
                      source |-> Identifier(i),
                      client |-> i]),
         Tail(rs), i)

\* One iteration of initialize()'s loop over this.clients, for connection i
\* with profile c: the catalogs afterwards, whether listTools() returned,
\* and whether the loop was left.
IntegrateOne(v, c, i, tools, res) ==
  IF v = "index"
    THEN \* getClientTools / getClientResources answer [] for a missing
         \* handle and for a rejected call
         [tools |-> IF c.handle /\ c.toolsOk THEN PushTools(tools, c.tools, i) ELSE tools,
          resources |-> IF c.handle /\ c.resOk THEN PushResources(res, c.resources, i) ELSE res,
          listed |-> c.handle /\ c.toolsOk,
          brk |-> FALSE]
    ELSE IF ~c.handle
      THEN \* if (!mcpClient) break;
           [tools |-> tools, resources |-> res, listed |-> FALSE, brk |-> TRUE]
    ELSE IF ~c.toolsOk
      THEN \* listTools() rejected: the iteration's catch logs it
           [tools |-> tools, resources |-> res, listed |-> FALSE, brk |-> FALSE]
    ELSE \* tools pushed; a rejected listResources() is caught (by the inner
         \* try of "unified", by the iteration's catch of "part015")
         [tools |-> PushTools(tools, c.tools, i),
          resources |-> IF c.resOk THEN PushResources(res, c.resources, i) ELSE res,
          listed |-> TRUE,
          brk |-> FALSE]

\* initialize(): one step per connection.
initialize ==
  /\ at = "initialize"
  /\ ci <= Len(clients)
  /\ LET r == IntegrateOne(variant, clients[ci], ci, unifiedTools, unifiedResources) IN
       /\ unifiedTools' = r.tools
       /\ unifiedResources' = r.resources
       /\ asked' = IF r.listed THEN Append(asked, ci) ELSE asked
       /\ IF r.brk \/ ci = Len(clients)
            THEN at' = "ready" /\ ci' = 0
            ELSE at' = at /\ ci' = ci + 1
  /\ UNCHANGED <<variant, clients, wm, toolUses, ti, calls, toolResults, completions, ret>>
  /\ UNCHANGED <<svars, ovars>>

getAllTools == unifiedTools

getAllResources == unifiedResources

\* No server runs beside the aggregator.
NoServer ==
  /\ layout = "modular"
  /\ transports = <<>>
  /\ uuids = 0
  /\ servers = 0
  /\ sseTransports = <<>>
  /\ httpTransports = <<>>
  /\ pending = {}
  /\ lastResp = NoResp
  /\ shutdown = NoSweep
  /\ removedIds = {}

\* new UnifiedMCPClient(clients), about to run initialize().
InitInitialize ==
  /\ NoServer
  /\ NoOthers
  /\ variant \in Variants
  /\ clients \in ClientLists
  /\ at = "initialize"
  /\ ci = 1
  /\ unifiedTools = <<>>
  /\ unifiedResources = <<>>
  /\ asked = <<>>
  /\ wm = <<>>
  /\ toolUses = <<>>
  /\ ti = 0
  /\ calls = <<>>
  /\ toolResults = <<>>
  /\ completions = <<>>
  /\ ret = NoRet

NextInitialize == initialize

SpecInitialize == InitInitialize /\ [][NextInitialize]_vars

\* ---------------------------------------------------------------------------
\* Claims about initialize()
\* ---------------------------------------------------------------------------

Range(f) == {f[k] : k \in DOMAIN f}

\* What connection i's listTools() returned, tagged with the connection.
Tagged(i) ==
  [k \in 1 .. Len(clients[i].tools) |->
     [name |-> clients[i].tools[k].name, source |-> Identifier(i), client |-> i]]

\* The tagged lists of connections 1 .. i whose listTools() returned, in
\* connection order.
RECURSIVE ListedConcat(_)
ListedConcat(i) ==
  IF i = 0 THEN <<>>
  ELSE ListedConcat(i - 1) \o (IF i \in Range(asked) THEN Tagged(i) ELSE <<>>)

NameSourceClient(cat) ==
  [k \in 1 .. Len(cat) |->
     [name |-> cat[k].name, source |-> cat[k].source, client |-> cat[k].client]]

\* C6: once initialize() has run, getAllTools() is the concatenation, in
\* connection order, of what each connection's listTools() returned: every
\* listed tool has one entry carrying its connection as source and client,
\* none is dropped and equal names are not merged.
C6_CatalogIsConcatenation ==
  at = "ready" => NameSourceClient(getAllTools) = ListedConcat(Len(clients))

\* Two connections listed the same tool name and one of them listed two
\* tools: the catalog holds all of them.
C6_Witness ==
  /\ at = "ready"
  /\ Len(asked) = 2
  /\ Len(getAllTools) >= 3
  /\ \E k, l \in 1 .. Len(getAllTools) :
       /\ k < l
       /\ getAllTools[k].name = getAllTools[l].name
       /\ getAllTools[k].source # getAllTools[l].source

\* A connection none of whose own calls fail.
Sound(j) == clients[j].handle /\ clients[j].toolsOk /\ clients[j].resOk

Integrated(j) ==
  /\ \A k \in 1 .. Len(clients[j].tools) :
       \E e \in Range(getAllTools) :
         e.name = clients[j].tools[k].name /\ e.source = Identifier(j)
  /\ \A k \in 1 .. Len(clients[j].resources) :
       \E e \in Range(getAllResources) :
         e.uri = clients[j].resources[k].uri /\ e.source = Identifier(j)

MaxToolUses == 2

\* Names the model may ask for: the two the servers list and one no server
\* lists.
ToolUseNames == {"get-alerts", "get-forecast", "get-time"}

ToolUseLists == UNION {[1 .. n -> ToolUseNames] : n \in 0 .. MaxToolUses}

\* messages of a getPrompt() result.
PromptMessages == {<<>>, <<"user">>}

\* One message of workingMessages: src is the connection a prompt message came
\* from, data the connections whose dataset was written into the message.
Message(role, kind, src) == [role |-> role, kind |-> kind, src |-> src, data |-> <<>>]

\* resource.uri.toLowerCase().includes("data.json")
IsDataJson(uri) == uri = "file:///data.json"

\* Lookups find() does not do: the head of the catalog whatever its name,
\* and the last entry of the name.
FindHead(cat, n) ==
  IF \E k \in 1 .. Len(cat) : cat[k].name = n THEN 1 ELSE 0

FindLast(cat, n) ==
  IF \E k \in 1 .. Len(cat) : cat[k].name = n
    THEN CHOOSE k \in 1 .. Len(cat) :
           cat[k].name = n /\ \A l \in 1 .. Len(cat) : cat[l].name = n => l <= k
    ELSE 0

\* this.unifiedTools.find((t) => t.name === toolName): the index of the first
\* entry of that name, 0 for undefined.
Find(cat, n) ==
  IF \E k \in 1 .. Len(cat) : cat[k].name = n
    THEN CHOOSE k \in 1 .. Len(cat) :
           cat[k].name = n /\ \A l \in 1 .. Len(cat) : cat[l].name = n => k <= l
    ELSE 0

\* The query goes in as the user message, after any prompt messages.
PushQuery(msgs) == Append(msgs, Message("user", "query", 0))

\* The next discovery loop starts.
ToResources(msgs) ==
  /\ wm' = PushQuery(msgs)
  /\ at' = "listResources"
  /\ ci' = 1

\* A call that would go on with the messages of the call before it, which
\* processQuery does not do.
KeptMessages == wm

\* const workingMessages: MessageParam[] = [];
FreshMessages == <<>>

\* processQuery(query) is entered, for the first query or a later one of the
\* chat loop: its locals are new.
processQuery ==
  /\ at \in {"ready", "returned"}
  /\ IF variant = "index"
       THEN wm' = PushQuery(FreshMessages) /\ at' = "complete" /\ ci' = 0
       ELSE wm' = FreshMessages /\ at' = "listPrompts" /\ ci' = 1
  /\ asked' = <<>>
  /\ toolUses' = <<>>
  /\ ti' = 0
  /\ calls' = <<>>
  /\ toolResults' = <<>>
  /\ completions' = <<>>
  /\ ret' = NoRet
  /\ UNCHANGED <<variant, clients, unifiedTools, unifiedResources>>
  /\ UNCHANGED <<svars, ovars>>

\* await mcpClient.listPrompts() on connection ci, and the code up to the
\* next awaited call.
listPrompts(outcome) ==
  /\ at = "listPrompts"
  /\ asked' = Append(asked, outcome)
  /\ IF outcome = "throws"
       THEN ToResources(wm)
     ELSE IF outcome = "some"
       THEN at' = "getPrompt" /\ UNCHANGED <<wm, ci>>
     ELSE IF variant = "unified"
       THEN \* if (!promptsList.prompts || !(promptsList.prompts.length > 0)) break;
            ToResources(wm)
     ELSE IF ci < Len(clients)
       THEN ci' = ci + 1 /\ UNCHANGED <<wm, at>>
     ELSE ToResources(wm)
  /\ UNCHANGED <<variant, clients, unifiedTools, unifiedResources, toolUses, ti, calls,
                 toolResults, completions, ret>>
  /\ UNCHANGED <<svars, ovars>>

\* await mcpClient.getPrompt(...) on connection ci: its messages are pushed
\* and the loop is left.
getPrompt(ok, roles) ==
  /\ at = "getPrompt"
  /\ IF ok
       THEN /\ ToResources(wm \o [k \in 1 .. Len(roles) |-> Message(roles[k], "prompt", ci)])
            /\ asked' = asked
       ELSE /\ roles = <<>>
            /\ ToResources(wm)
            /\ asked' = [asked EXCEPT ![Len(asked)] = "throws"]
  /\ UNCHANGED <<variant, clients, unifiedTools, unifiedResources, toolUses, ti, calls,
                 toolResults, completions, ret>>
  /\ UNCHANGED <<svars, ovars>>

\* The resource loop is over: the first completion is next.
ToComplete(msgs) ==
  /\ wm' = msgs
  /\ at' = "complete"
  /\ ci' = 0

\* A resource loop that hands over to prompt discovery again.
RestartPrompts == ci' = 1 /\ at' = "listPrompts" /\ wm' = wm

\* The resource loop goes on with the next connection, if there is one.
NextResources ==
  IF ci < Len(clients)
    THEN ci' = ci + 1 /\ at' = "listResources" /\ wm' = wm
    ELSE ToComplete(wm)

\* An exception in the resource loop: "unified" catches it inside the loop,
\* "part015" around the loop.
ResourcesThrew == IF variant = "unified" THEN NextResources ELSE ToComplete(wm)

\* A connection without the data resource: "unified" breaks, "part015" falls
\* through to the next connection.
ResourcesMissing == IF variant = "unified" THEN ToComplete(wm) ELSE NextResources

\* What the resource loop recorded, the prompt loop's record being dropped as
\* the resource loop starts.
ResourcesAsked(outcome) == IF ci = 1 THEN <<outcome>> ELSE Append(asked, outcome)

\* await mcpClient.listResources() on connection ci.
listResources(ok, rs) ==
  /\ at = "listResources"
  /\ IF ~ok
       THEN /\ rs = <<>>
            /\ asked' = ResourcesAsked("throws")
            /\ ResourcesThrew
     ELSE IF rs = <<>>
       THEN /\ asked' = ResourcesAsked("none")
            /\ ResourcesMissing
     ELSE IF ~\E k \in 1 .. Len(rs) : IsDataJson(rs[k].uri)
       THEN /\ asked' = ResourcesAsked("noMatch")
            /\ ResourcesMissing
     ELSE /\ asked' = ResourcesAsked("match")
          /\ at' = "readResource"
          /\ UNCHANGED <<wm, ci>>
  /\ UNCHANGED <<variant, clients, unifiedTools, unifiedResources, toolUses, ti, calls,
                 toolResults, completions, ret>>
  /\ UNCHANGED <<svars, ovars>>

ReadOutcomes == {"throws", "empty", "notJson", "json"}

\* await mcpClient.readResource(...) on connection ci, JSON.parse of the
\* first content's text, and the rewrite of the last message.
readResource(outcome) ==
  /\ at = "readResource"
  /\ IF outcome \in {"throws", "notJson"}
       THEN /\ asked' = [asked EXCEPT ![Len(asked)] = "throws"]
            /\ ResourcesThrew
     ELSE IF outcome = "empty"
       THEN /\ asked' = [asked EXCEPT ![Len(asked)] = "empty"]
            /\ ResourcesMissing
     ELSE /\ asked' = asked
          /\ ToComplete([wm EXCEPT ![Len(wm)].data = Append(@, ci)])
  /\ UNCHANGED <<variant, clients, unifiedTools, unifiedResources, toolUses, ti, calls,
                 toolResults, completions, ret>>
  /\ UNCHANGED <<svars, ovars>>

\* The first messages.create call: the history and the whole catalog as
\* tools, and whether it resolved.  (calls: the callTool invocations made
\* before it.)
FirstCompletion(ok) ==
  [withTools |-> TRUE, messages |-> Len(wm), calls |-> Len(calls), ok |-> ok]

\* A final call that offers the catalog again, which the code does not make.
FinalCompletionWithTools(ok) ==
  [withTools |-> TRUE, messages |-> Len(wm), calls |-> Len(calls), ok |-> ok]

\* The second messages.create call: the history, no tools.
FinalCompletion(ok) ==
  [withTools |-> FALSE, messages |-> Len(wm), calls |-> Len(calls), ok |-> ok]

\* A result block that reads like a tool's answer.
FoundResult(id) == [tool_use_id |-> id, kind |-> "text"]

\* `Error: Tool ${toolName} not found`
NotFoundResult(id) == [tool_use_id |-> id, kind |-> "notFound"]

\* An answer of joined text segments, none collected.
EmptyAnswer == [kind |-> "text", text |-> <<>>]

\* "Sorry, I encountered an error while processing your query."
Apology == [kind |-> "apology", text |-> <<>>]

\* workingMessages.push({ role: "assistant", content: response.content })
AssistantMessage(content) == [Message("assistant", "tool_use", 0) EXCEPT !.data = content]

\* workingMessages.push({ role: "user", content: toolResults })
ToolResultMessage(results) == [Message("user", "tool_result", 0) EXCEPT !.data = results]

\* A dispatch loop that passes over an item the catalog does not hold
\* without a result for it, which the code does not do.
RECURSIVE SkipNotFoundSilent(_, _, _)
SkipNotFoundSilent(uses, k, rs) ==
  IF k > Len(uses) THEN [ti |-> k, results |-> rs]
  ELSE IF Find(unifiedTools, uses[k].name) = 0
    THEN SkipNotFoundSilent(uses, k + 1, rs)
  ELSE [ti |-> k, results |-> rs]

\* The part of the dispatch loop that awaits nothing: items whose name the
\* catalog does not hold get a "not found" result and the loop continues,
\* up to the first item that has a catalog entry or the end of the list.
RECURSIVE SkipNotFound(_, _, _)
SkipNotFound(uses, k, rs) ==
  IF k > Len(uses) THEN [ti |-> k, results |-> rs]
  ELSE IF Find(unifiedTools, uses[k].name) = 0
    THEN SkipNotFound(uses, k + 1, Append(rs, NotFoundResult(uses[k].id)))
  ELSE [ti |-> k, results |-> rs]

\* The dispatch loop from item k on, up to its next awaited callTool(); once
\* the list is done the tool results go in as one user message.
Dispatch(uses, k, rs, msgs) ==
  LET r == SkipNotFound(uses, k, rs) IN
    /\ ti' = r.ti
    /\ toolResults' = r.results
    /\ IF r.ti > Len(uses)
         THEN wm' = Append(msgs, ToolResultMessage(r.results)) /\ at' = "completeFinal"
         ELSE wm' = msgs /\ at' = "callTool"

\* The first completion call, with the whole catalog as tools, and the split
\* of its content into text and tool_use items.
complete(ok, hasText, names) ==
  /\ at = "complete"
  /\ completions' = Append(completions, FirstCompletion(ok))
  /\ asked' = <<>>
  /\ IF ~ok
       THEN /\ ~hasText /\ names = <<>>
            /\ ret' = Apology
            /\ at' = "returned"
            /\ UNCHANGED <<wm, toolUses, ti, toolResults>>
       ELSE LET finalText == IF hasText THEN <<"first">> ELSE <<>>
                toolCalls == [k \in 1 .. Len(names) |-> [id |-> k, name |-> names[k]]]
            IN
              /\ toolUses' = toolCalls
              /\ IF toolCalls = <<>>
                   THEN /\ ret' = [kind |-> "text", text |-> finalText]
                        /\ at' = "returned"
                        /\ UNCHANGED <<wm, ti, toolResults>>
                   ELSE /\ ret' = [kind |-> "none", text |-> finalText]
                        /\ Dispatch(toolCalls, 1, <<>>, Append(wm, AssistantMessage(toolCalls)))
  /\ UNCHANGED <<variant, clients, ci, unifiedTools, unifiedResources, calls>>
  /\ UNCHANGED <<svars, ovars>>

\* await mcpClient.callTool(...) for item ti, on the client of the catalog
\* entry find() returned.
callTool(ok) ==
  /\ at = "callTool"
  /\ LET toolCall == toolUses[ti]
         unifiedTool == unifiedTools[Find(unifiedTools, toolCall.name)]
     IN
       /\ calls' = Append(calls, [item |-> toolCall.id, client |-> unifiedTool.client,
                                  name |-> toolCall.name, ok |-> ok])
       /\ IF ok
            THEN /\ Dispatch(toolUses, ti + 1,
                             Append(toolResults, [tool_use_id |-> toolCall.id, kind |-> "text"]), wm)
                 /\ ret' = ret
          ELSE IF variant = "unified"
            THEN \* catch (toolError): an error result, and the loop goes on
                 /\ Dispatch(toolUses, ti + 1,
                             Append(toolResults, [tool_use_id |-> toolCall.id, kind |-> "error"]), wm)
                 /\ ret' = ret
          ELSE \* the catch around the whole stage
               /\ ret' = Apology
               /\ at' = "returned"
               /\ UNCHANGED <<wm, ti, toolResults>>
  /\ UNCHANGED <<variant, clients, ci, unifiedTools, unifiedResources, asked, toolUses,
                 completions>>
  /\ UNCHANGED <<svars, ovars>>

\* The second completion call, without tools.
completeFinal(ok, hasText) ==
  /\ at = "completeFinal"
  /\ completions' = Append(completions, FinalCompletion(ok))
  /\ IF ok
       THEN ret' = [kind |-> "text",
                    text |-> ret.text \o (IF hasText THEN <<"final">> ELSE <<>>)]
       ELSE ~hasText /\ ret' = Apology
  /\ at' = "returned"
  /\ UNCHANGED <<variant, clients, ci, unifiedTools, unifiedResources, asked, wm, toolUses,
                 ti, calls, toolResults>>
  /\ UNCHANGED <<svars, ovars>>

\* initialize() as a whole: the catalogs it leaves.
RECURSIVE InitializeFrom(_, _, _, _, _)
InitializeFrom(v, cs, i, tools, res) ==
  IF i > Len(cs) THEN [tools |-> tools, resources |-> res]
  ELSE LET r == IntegrateOne(v, cs[i], i, tools, res) IN
         IF r.brk THEN [tools |-> r.tools, resources |-> r.resources]
         ELSE InitializeFrom(v, cs, i + 1, r.tools, r.resources)

\* Connections whose initialize() calls all answered, with at least one tool
\* and no resource listed.
Answering ==
  {[handle |-> TRUE, toolsOk |-> TRUE, tools |-> ts, resOk |-> TRUE, resources |-> <<>>] :
     ts \in ToolLists \ {<<>>}}

\* An aggregator after initialize(), about to take a query.
InitQuery ==
  /\ NoServer
  /\ NoOthers
  /\ variant \in Variants
  /\ clients \in UNION {[1 .. n -> Answering] : n \in 1 .. MaxConns}
  /\ at = "ready"
  /\ ci = 0
  /\ unifiedTools = InitializeFrom(variant, clients, 1, <<>>, <<>>).tools
  /\ unifiedResources = InitializeFrom(variant, clients, 1, <<>>, <<>>).resources
  /\ asked = <<>>
  /\ wm = <<>>
  /\ toolUses = <<>>
  /\ ti = 0
  /\ calls = <<>>
  /\ toolResults = <<>>
  /\ completions = <<>>
  /\ ret = NoRet

NextQuery ==
  \/ processQuery
  \/ \E outcome \in {"none", "some", "throws"} : listPrompts(outcome)
  \/ \E ok \in BOOLEAN, roles \in PromptMessages : getPrompt(ok, roles)
  \/ \E ok \in BOOLEAN, rs \in ResourceLists : listResources(ok, rs)
  \/ \E outcome \in ReadOutcomes : readResource(outcome)
  \/ \E ok \in BOOLEAN, hasText \in BOOLEAN, names \in ToolUseLists : complete(ok, hasText, names)
  \/ \E ok \in BOOLEAN : callTool(ok)
  \/ \E ok \in BOOLEAN, hasText \in BOOLEAN : completeFinal(ok, hasText)

SpecQuery == InitQuery /\ [][NextQuery]_vars

\* ---------------------------------------------------------------------------
\* Claims about processQuery
\* ---------------------------------------------------------------------------

\* The connections whose catalog entries carry name n.
Owners(n) == {unifiedTools[k].client : k \in {l \in 1 .. Len(unifiedTools) : unifiedTools[l].name = n}}

\* The callTool invocations made for tool_use item k.
CallsFor(k) == {c \in 1 .. Len(calls) : calls[c].item = toolUses[k].id}

UniqueItems == {k \in 1 .. Len(toolUses) : Cardinality(Owners(toolUses[k].name)) = 1}

\* C8 as stated: for each tool_use item of the first completion response
\* whose name is in exactly one connection's catalog, callTool is invoked
\* exactly once (seen when processQuery has returned).
C8_EveryItemDispatched ==
  at = "returned" => \A k \in UniqueItems : Cardinality(CallsFor(k)) = 1

\* C8: for each tool_use item of the first completion response whose name is
\* in exactly one connection's catalog, callTool is invoked at most once, only
\* on that connection's client and with that name, and exactly once as soon
\* as the dispatch loop has passed the item.
C8_UniqueNameDispatchedOnce ==
  \A k \in UniqueItems :
    /\ Cardinality(CallsFor(k)) <= 1
    /\ \A c \in CallsFor(k) :
         calls[c].name = toolUses[k].name /\ calls[c].client \in Owners(toolUses[k].name)
    /\ k < ti => Cardinality(CallsFor(k)) = 1

\* Two items with names of different single connections, the second one
\* listed by connection 2 alone, have both been dispatched.
C8_Witness ==
  /\ at = "completeFinal"
  /\ UniqueItems = {1, 2}
  /\ Owners(toolUses[1].name) = {1}
  /\ Owners(toolUses[2].name) = {2}
  /\ Len(calls) = 2

\* C9: a tool call whose name several catalog entries share goes to the
\* connection of the first such entry in catalog order, never to a later
\* connection listing the same name.
C9_FirstEntryWins ==
  \A c \in 1 .. Len(calls) :
    Cardinality(Owners(calls[c].name)) >= 2 =>
      \E k \in 1 .. Len(unifiedTools) :
        /\ unifiedTools[k].name = calls[c].name
        /\ unifiedTools[k].client = calls[c].client
        /\ \A l \in 1 .. k - 1 : unifiedTools[l].name # calls[c].name

\* A name listed by both connections was called, on connection 1.
C9_Witness ==
  /\ Len(calls) >= 1
  /\ Owners(calls[1].name) = {1, 2}
  /\ calls[1].client = 1

\* The prompt loop is over and none of its calls threw.
PromptsSettled ==
  /\ at = "listResources"
  /\ ci = 1
  /\ "throws" \notin Range(asked)

\* C10: the prompt messages come from the first connection, in list order,
\* that has a prompt: a connection reporting none is skipped and the next one
\* is asked, the loop stops at the first connection that has one, and no two
\* connections' prompts are both in the history.
C10_FirstPromptWins ==
  PromptsSettled =>
    /\ \A k \in 1 .. Len(asked) - 1 : asked[k] = "none"
    /\ IF asked[Len(asked)] = "some"
         THEN \A m \in Range(wm) : m.kind = "prompt" => m.src = Len(asked)
         ELSE /\ Len(asked) = Len(clients)
              /\ \A m \in Range(wm) : m.kind # "prompt"

\* The resource loop is over and none of its calls threw.
ResourcesSettled ==
  /\ at = "complete"
  /\ variant # "index"
  /\ "throws" \notin Range(asked)

\* The datasets written into the query message.
Inlined == wm[Len(wm)].data

\* C11: the dataset resource is sought across connections in list order: a
\* connection with no resources or no matching resource is skipped and the
\* next one is asked, the content of the first connection that has it goes
\* into the user message, and at most one connection's dataset does.
C11_FirstDatasetWins ==
  ResourcesSettled =>
    /\ \A k \in 1 .. Len(asked) - 1 : asked[k] \in {"none", "noMatch", "empty"}
    /\ Len(Inlined) <= 1
    /\ IF asked[Len(asked)] = "match"
         THEN Inlined = <<Len(asked)>>
         ELSE Len(asked) = Len(clients) /\ Inlined = <<>>

\* The tool results have been collected into the history.
ResultsCollected == wm # <<>> /\ wm[Len(wm)].kind = "tool_result"

\* C12 as stated: processQuery makes the second completion call if and only
\* if the first response contained at least one tool_use item (seen when
\* processQuery has returned after a first response).
C12_SecondIffToolUse ==
  (at = "returned" /\ Len(completions) >= 1 /\ toolUses # <<>>) => Len(completions) = 2

\* C12: processQuery makes at most two completion calls, the first with the
\* catalog as tools; a second one is made only after a first response with
\* tool_use items whose results have all been collected, it offers no tools,
\* no tool call is dispatched after it, and once the results are collected
\* processQuery does not return without it.
C12_OneFinalCompletion ==
  /\ Len(completions) <= 2
  /\ Len(completions) >= 1 => completions[1].withTools
  /\ Len(completions) = 2 =>
       /\ ~completions[2].withTools
       /\ toolUses # <<>>
       /\ Len(toolResults) = Len(toolUses)
       /\ Len(calls) = completions[2].calls
  /\ (at = "returned" /\ ResultsCollected) => Len(completions) = 2
  /\ (at = "returned" /\ ret.kind = "text" /\ toolUses = <<>>) => Len(completions) = 1

\* processQuery has returned after two completion calls and a tool call.
C12_Witness ==
  /\ at = "returned"
  /\ Len(completions) = 2
  /\ Len(calls) >= 1

Last(q) == q[Len(q)]

\* The step is a discovery call (listPrompts, getPrompt, listResources,
\* readResource, JSON.parse included) that threw.
ThrewInDiscovery ==
  /\ at \in {"listPrompts", "getPrompt", "listResources", "readResource"}
  /\ asked' # <<>>
  /\ Last(asked') = "throws"

\* The step is a completion call that rejected.
ThrewInCompletion == Len(completions') > Len(completions) /\ ~Last(completions').ok

\* The step is a callTool() that rejected.
ThrewInCallTool == Len(calls') > Len(calls) /\ ~Last(calls').ok

ReturnsApology == at' = "returned" /\ ret'.kind = "apology"

\* C13 as stated: an exception raised at any stage (prompt discovery,
\* resource discovery, either completion call, tool dispatch) makes
\* processQuery return the apology string.
C13_AnyExceptionIsApology ==
  [][(ThrewInDiscovery \/ ThrewInCompletion \/ ThrewInCallTool) => ReturnsApology]_vars

\* C13: processQuery never ends in an exception.  A completion call that
\* rejects makes it return the apology string, and so does a rejected
\* callTool in the copies without a catch around the single call; in
\* "unified" a rejected callTool becomes an error result and the loop goes
\* on; an exception in prompt or resource discovery is logged and the call
\* goes on to the next stage or connection without returning.
C13_ExceptionsAreCaught ==
  [][/\ at' = "returned" => ret'.kind \in {"text", "apology"}
     /\ ThrewInCompletion => ReturnsApology
     /\ ThrewInCallTool =>
          IF variant = "unified"
            THEN /\ at' \in {"callTool", "completeFinal"}
                 /\ [tool_use_id |-> Last(calls').item, kind |-> "error"] \in Range(toolResults')
                 /\ ret' = ret
            ELSE ReturnsApology
     /\ ThrewInDiscovery =>
          /\ at' \in {"listResources", "complete"}
          /\ ret' = NoRet]_vars

\* The second completion call rejected after a tool call, and processQuery
\* returned the apology.
C13_Witness ==
  /\ at = "returned"
  /\ Len(completions) = 2
  /\ ~completions[2].ok
  /\ Len(calls) >= 1
  /\ ret.kind = "apology"

\* The tool_use items whose name no catalog entry carries.
UnknownItems == {k \in 1 .. Len(toolUses) : Find(unifiedTools, toolUses[k].name) = 0}

\* C14 as stated: when the model asks for a tool whose name is not in the
\* catalog, processQuery returns the apology string.
C14_UnknownToolIsApology ==
  (at = "returned" /\ UnknownItems # {}) => ret.kind = "apology"

\* C14: a completion call that fails makes processQuery return the apology
\* string with no text of the failure in it; a tool_use item whose name is
\* not in the catalog is not dispatched and does not end the call: once the
\* loop has passed it, it has a "not found" result, which goes to the model
\* with the other results in the second completion call.
C14_FailedCompletionIsApology ==
  /\ (at = "returned" /\ completions # <<>> /\ ~Last(completions).ok) =>
       ret = [kind |-> "apology", text |-> <<>>]
  /\ \A k \in UnknownItems :
       /\ CallsFor(k) = {}
       /\ k < ti =>
            [tool_use_id |-> toolUses[k].id, kind |-> "notFound"] \in Range(toolResults)
  /\ \A c \in 1 .. Len(completions) :
       (~completions[c].withTools /\ UnknownItems # {}) => ResultsCollected

\* An unknown tool name was answered "not found", the second completion was
\* made and processQuery returned its text.
C14_Witness ==
  /\ at = "returned"
  /\ ret.kind = "text"
  /\ UnknownItems # {}
  /\ \E r \in Range(toolResults) : r.kind = "notFound"

\* ---------------------------------------------------------------------------
\* The single-server client MCPClient (project_1 utils/MCPClient.ts and its
\* later copy): one MCP connection, and a history this.messages kept across
\* the processQuery calls of the chat loop.
\* ---------------------------------------------------------------------------

\* processQuery calls of one chat loop.
MaxQueries == 2

\* One message of the history: the call q that built it; for a tool_result
\* the tool_use id it answers; for an assistant message the response whose
\* content it carries; for a query what discovery wrote into it.
ChatMessage(role, kind, q, id, of, data) ==
  [role |-> role, kind |-> kind, q |-> q, id |-> id, of |-> of, data |-> data]

EmptyCopy(msgs) == <<>>

\* [...this.messages]
WorkingCopy(msgs) == msgs

\* A return that stores the working copy on the way through the catch as
\* well, which the code does not do.
ChatReturnStoring(c, kind) ==
  [c EXCEPT !.at = "idle", !.outcomes = Append(@, kind), !.messages = c.wm]

\* processQuery ends: this.messages = workingMessages before the normal
\* return, nothing stored on the way through the catch.
ChatReturn(c, kind) ==
  [c EXCEPT !.at = "idle",
            !.outcomes = Append(@, kind),
            !.messages = IF kind = "text" THEN c.wm ELSE @]

\* The loop over the first response's content from item k on: up to the next
\* tool_use item, or to the end and the return.
ChatLoop(c, k) ==
  IF k <= c.uses
    THEN [c EXCEPT !.idx = k, !.at = "callTool"]
    ELSE ChatReturn(c, "text")

chatProcessQuery ==
  /\ chat.at = "idle"
  /\ chat.q < MaxQueries
  /\ chat' = [chat EXCEPT !.at = "prompt",
                          !.q = @ + 1,
                          !.wm = WorkingCopy(chat.messages),
                          !.before = chat.messages,
                          !.sent = <<>>,
                          !.uses = 0,
                          !.idx = 0,
                          !.response = "none"]
  /\ UNCHANGED <<svars, cvars, proc>>

\* Prompt discovery (listPrompts, getPrompt) in its try/catch, and the push
\* of the query.
chatPrompt(outcome) ==
  /\ chat.at = "prompt"
  /\ LET withPrompt ==
           IF outcome = "some"
             THEN Append(chat.wm, ChatMessage("user", "prompt", chat.q, 0, "none", "none"))
             ELSE chat.wm
     IN chat' = [chat EXCEPT !.at = "resources",
                             !.wm = Append(withPrompt,
                                           ChatMessage("user", "query", chat.q, 0, "none", "none"))]
  /\ UNCHANGED <<svars, cvars, proc>>

\* Resource discovery (listResources, readResource, JSON.parse) in its
\* try/catch: the dataset, or the later copy's note about the tools, is
\* written into the query message, or nothing is.
chatResources(outcome) ==
  /\ chat.at = "resources"
  /\ chat' = [chat EXCEPT !.at = "complete",
                          !.wm[Len(chat.wm)].data =
                             IF outcome \in {"inlined", "note"} THEN outcome ELSE @]
  /\ UNCHANGED <<svars, cvars, proc>>

\* The first completion call, with this.tools; n tool_use items come back.
chatComplete(ok, n) ==
  /\ chat.at = "complete"
  /\ LET c == [chat EXCEPT !.sent = chat.wm] IN
       IF ok
         THEN chat' = ChatLoop([c EXCEPT !.response = "first", !.uses = n], 1)
         ELSE n = 0 /\ chat' = ChatReturn(c, "apology")
  /\ UNCHANGED <<svars, cvars, proc>>

\* await this.mcp.callTool(...) for item idx, then the push of the assistant
\* message (response.content, of whatever response now is) and of the
\* tool_result message.
chatCallTool(ok) ==
  /\ chat.at = "callTool"
  /\ IF ok
       THEN chat' = [chat EXCEPT
                       !.at = "completeFinal",
                       !.wm = chat.wm \o
                                <<ChatMessage("assistant", "content", chat.q, 0, chat.response, "none"),
                                  ChatMessage("user", "tool_result", chat.q, chat.idx, "none", "none")>>]
       ELSE chat' = ChatReturn(chat, "apology")
  /\ UNCHANGED <<svars, cvars, proc>>

\* The completion call without tools inside the loop; response is assigned
\* its result and the loop over the first content goes on.
chatCompleteFinal(ok) ==
  /\ chat.at = "completeFinal"
  /\ LET c == [chat EXCEPT !.sent = chat.wm] IN
       IF ok
         THEN chat' = ChatLoop([c EXCEPT !.response = "final"], chat.idx + 1)
         ELSE chat' = ChatReturn(c, "apology")
  /\ UNCHANGED <<svars, cvars, proc>>

\* new MCPClient(), connected, at the chat loop's prompt.
InitChat ==
  /\ NoServer
  /\ NoClient
  /\ proc = NoProc
  /\ chat = [NoChat EXCEPT !.at = "idle"]

NextChat ==
  \/ chatProcessQuery
  \/ \E outcome \in {"throws", "none", "some"} : chatPrompt(outcome)
  \/ \E outcome \in {"throws", "none", "inlined", "note"} : chatResources(outcome)
  \/ \E ok \in BOOLEAN, n \in 0 .. MaxToolUses : chatComplete(ok, n)
  \/ \E ok \in BOOLEAN : chatCallTool(ok)
  \/ \E ok \in BOOLEAN : chatCompleteFinal(ok)

SpecChat == InitChat /\ [][NextChat]_vars

\* Either client at its chat loop: the aggregator after initialize(), or the
\* single-server client.
InitClients == InitQuery \/ InitChat

NextClients == NextQuery \/ NextChat

SpecClients == InitClients /\ [][NextClients]_vars

\* ---------------------------------------------------------------------------
\* Claims about the conversation history
\* ---------------------------------------------------------------------------

IsPrefix(a, b) == Len(a) <= Len(b) /\ SubSeq(b, 1, Len(a)) = a

CountKind(msgs, kind) == Cardinality({k \in 1 .. Len(msgs) : msgs[k].kind = kind})

\* The last call of the single-server client returned its text.
ChatReturnedText ==
  chat.at = "idle" /\ chat.outcomes # <<>> /\ Last(chat.outcomes) = "text"

\* C15: in the single-server client, after a processQuery call that returns
\* normally the stored history is the history before the call, unmodified,
\* followed by the messages the call appended, so that a completion call of
\* the Nth query is sent the messages of every such earlier call; in the
\* aggregator each call builds its message list from nothing, so the list
\* never holds a second query or a second round of tool results.
C15_HistoryKeptOrFresh ==
  /\ ChatReturnedText =>
       /\ chat.messages = chat.wm
       /\ IsPrefix(chat.before, chat.messages)
       /\ \A k \in Len(chat.before) + 1 .. Len(chat.messages) : chat.messages[k].q = chat.q
  /\ chat.sent # <<>> =>
       /\ IsPrefix(chat.before, chat.sent)
       /\ \A p \in 1 .. chat.q - 1 :
            chat.outcomes[p] = "text" =>
              \E m \in Range(chat.sent) : m.kind = "query" /\ m.q = p
  /\ at # "off" =>
       /\ CountKind(wm, "query") <= 1
       /\ CountKind(wm, "tool_use") <= 1
       /\ CountKind(wm, "tool_result") <= 1
       /\ \A c \in 1 .. Len(completions) : completions[c].messages <= Len(wm)

\* The second query's completion call is sent the first query's messages, a
\* tool round included.
C15_Witness ==
  /\ chat.q = 2
  /\ chat.outcomes # <<>>
  /\ chat.outcomes[1] = "text"
  /\ chat.sent # <<>>
  /\ CountKind(chat.before, "tool_result") >= 1

\* ---------------------------------------------------------------------------
\* The weather server processes: start-up, the provider adapters and the tool
\* handlers and HTTP controllers that call them.
\*
\*   "unified"     project_2/server: routes + middleware + UnifiedMCPServer.ts
\*   "monolith"    project_2/server/src/index.ts: the same server in one file
\*   "streamable"  unnamed/part_009: the Streamable HTTP server
\*   "express"     project_3/server: the Express API server and its controllers
\*   "stdio"       project_3/server: the weather-mcp-server on stdio
\* ---------------------------------------------------------------------------
Programs == {"unified", "monolith", "streamable", "express", "stdio"}

EnvNames ==
  {"WEATHER_USER_AGENT", "USA_WEATHER_API", "WEATHERAPI_KEY", "WEATHERAPI_URL",
   "CLIENT_ACCESS_TOKEN"}

\* The environments a process is started in: complete, or one variable short.
Envs == {EnvNames} \cup {EnvNames \ {v} : v \in EnvNames}

\* What an upstream HTTP call ends in: a network error (net = FALSE), or a
\* response with a status (ok: 2xx), a body (json: it parses) and, for a body
\* that parses, whether it holds what the caller looks for (full: features,
\* a forecast URL, periods, current conditions, forecast days, locations).
Responses ==
  {[net |-> FALSE, ok |-> FALSE, json |-> FALSE, full |-> FALSE]} \cup
  {r \in [net : {TRUE}, ok : BOOLEAN, json : BOOLEAN, full : BOOLEAN] :
     r.full => r.json /\ r.ok}

Bad(r) == ~r.net \/ ~r.ok \/ ~r.json

Null == [kind |-> "null", ok |-> FALSE, full |-> FALSE]
Thrown == [kind |-> "throw", ok |-> FALSE, full |-> FALSE]
Await == [kind |-> "await", ok |-> FALSE, full |-> FALSE]
Payload(r) == [kind |-> "payload", ok |-> r.ok, full |-> r.full]

\* try { response = await fetch(); if (!response.ok) throw; return await
\* response.json() } catch { return null }
Checked(r) == IF ~r.net \/ ~r.ok \/ ~r.json THEN Null ELSE Payload(r)

\* fetch(url).then((res) => res.json()).catch(() => null)
Unchecked(r) == IF ~r.net \/ ~r.json THEN Null ELSE Payload(r)

\* The adapters answer from the k-th upstream response of the request once it
\* has arrived.
makeNWSRequest(env, rs, k) ==
  IF ~({"WEATHER_USER_AGENT", "USA_WEATHER_API"} \subseteq env) THEN Null
  ELSE IF Len(rs) < k THEN Await
  ELSE Checked(rs[k])

\* part_009 and project_2/server/src/index.ts: USER_AGENT and NWS_API_BASE are
\* constants of the module.
makeNWSRequestFixed(rs, k) == IF Len(rs) < k THEN Await ELSE Checked(rs[k])

makeWeatherAPIRequest(env, rs, k) ==
  IF "WEATHER_USER_AGENT" \notin env THEN Null
  ELSE IF Len(rs) < k THEN Await
  ELSE Checked(rs[k])

getCurrentWeatherCanada(env, rs) ==
  IF "WEATHERAPI_KEY" \notin env THEN Thrown ELSE makeWeatherAPIRequest(env, rs, 1)

getForecastCanada(env, rs) ==
  IF "WEATHERAPI_KEY" \notin env THEN Thrown ELSE makeWeatherAPIRequest(env, rs, 1)

getUSWeatherAlerts(env, rs) == makeNWSRequest(env, rs, 1)

getUSWeatherForecast(env, rs) ==
  LET pointsData == makeNWSRequest(env, rs, 1) IN
  IF pointsData.kind = "await" THEN Await
  ELSE IF pointsData.kind = "null" \/ ~pointsData.full THEN Null
  ELSE IF Len(rs) < 2 THEN Await
  ELSE Unchecked(rs[2])

\* One returned adapter call: the adapter, the upstream responses it was
\* given, and what it returned or threw.
Call(name, result, responses) == [name |-> name, result |-> result, responses |-> responses]

Returned(name, result, responses) ==
  IF result.kind = "await" THEN <<>> ELSE <<Call(name, result, responses)>>

\* The upstream responses an adapter call has consumed so far.
Upto(rs, n) == SubSeq(rs, 1, IF Len(rs) < n THEN Len(rs) ELSE n)

\* What a handler answers: a normal response carrying a text ("normal"), an
\* MCP error result for a handler that threw ("toolError"), or an HTTP error
\* status ("http500", "http401", "http403"); "pending" while it awaits.
Reply(kind, text) == [kind |-> kind, text |-> text]
Pending == Reply("pending", "none")
NoReply == Reply("none", "none")

\* if (!data) failed; else if (nothing in it) empty; else the formatted data
FailedEmptyData(a, failed, empty) ==
  IF a.kind = "await" THEN Pending
  ELSE IF a.kind = "null" THEN Reply("normal", failed)
  ELSE IF ~a.full THEN Reply("normal", empty)
  ELSE Reply("normal", "data")

\* The tools of the weather-mcp-server have no try/catch: an adapter that
\* throws makes the tool call fail.
StdioTool(a, failed, empty) ==
  IF a.kind = "throw" THEN Reply("toolError", "none") ELSE FailedEmptyData(a, failed, empty)

\* The controllers answer 500 from their outer catch.
Controller(a, failed, empty) ==
  IF a.kind = "throw" THEN Reply("http500", "failed") ELSE FailedEmptyData(a, failed, empty)

\* get-forecast of UnifiedMCPServer.ts, project_2/server/src/index.ts and
\* part_009: two adapter calls.
GetForecast(first, second) ==
  IF first.kind = "await" THEN Pending
  ELSE IF first.kind = "null" THEN Reply("normal", "unsupported")
  ELSE IF ~first.full THEN Reply("normal", "noForecastUrl")
  ELSE FailedEmptyData(second, "failed", "empty")

Handlers(program) ==
  CASE program = "unified" ->
         {"get-alerts", "get-forecast", "get-canada-current-weather", "get-canada-forecast",
          "search-canada-locations"}
    [] program \in {"monolith", "streamable"} -> {"get-alerts", "get-forecast"}
    [] program = "express" ->
         {"usaWeatherAlerts", "usaWeatherForecast", "canadaCurrentWeather",
          "canadaWeatherForecast"}
    [] program = "stdio" ->
         {"get-us-weather-alerts", "get-us-weather-forecast", "get-canada-current-weather",
          "get-canada-weather-forecast"}
    [] OTHER -> {}

\* The Canadian tools of project_2/server/src/index.ts fetch from Environment
\* Canada themselves, through no provider adapter; they appear in the
\* registrations below and not among the handlers.
\*
\* The handler h of a program, run on the upstream responses rs that have
\* arrived: the adapter calls that returned and the handler's answer.
Handle(program, h, env, rs) ==
  LET nws(k) == IF program = "unified" THEN makeNWSRequest(env, rs, k)
                ELSE makeNWSRequestFixed(rs, k)
      one(name, a, reply) == [adapters |-> Returned(name, a, Upto(rs, 2)), reply |-> reply]
  IN
  CASE program \in {"unified", "monolith", "streamable"} /\ h = "get-alerts" ->
         one("makeNWSRequest", nws(1), FailedEmptyData(nws(1), "failed", "empty"))
    [] program \in {"unified", "monolith", "streamable"} /\ h = "get-forecast" ->
         LET first == nws(1)
             second == IF first.kind = "payload" /\ first.full THEN nws(2) ELSE Await
         IN [adapters |-> Returned("makeNWSRequest", first, Upto(rs, 1)) \o
                          Returned("makeNWSRequest", second, SubSeq(rs, 2, Len(rs))),
             reply |-> GetForecast(first, second)]
    [] program = "unified" /\ h = "get-canada-current-weather" ->
         LET a == makeWeatherAPIRequest(env, rs, 1) IN
         one("makeWeatherAPIRequest", a,
             IF a.kind = "payload" /\ ~a.full THEN Reply("normal", "failed")
             ELSE FailedEmptyData(a, "failed", "failed"))
    [] program = "unified" /\ h = "get-canada-forecast" ->
         LET a == makeWeatherAPIRequest(env, rs, 1) IN
         one("makeWeatherAPIRequest", a, FailedEmptyData(a, "failed", "failed"))
    [] program = "unified" /\ h = "search-canada-locations" ->
         LET a == makeWeatherAPIRequest(env, rs, 1) IN
         one("makeWeatherAPIRequest", a, FailedEmptyData(a, "empty", "empty"))
    [] program = "stdio" /\ h = "get-us-weather-alerts" ->
         LET a == getUSWeatherAlerts(env, rs) IN
         one("getUSWeatherAlerts", a, StdioTool(a, "failed", "empty"))
    [] program = "stdio" /\ h = "get-us-weather-forecast" ->
         LET a == getUSWeatherForecast(env, rs) IN
         one("getUSWeatherForecast", a, StdioTool(a, "unsupported", "empty"))
    [] program = "stdio" /\ h = "get-canada-current-weather" ->
         LET a == getCurrentWeatherCanada(env, rs) IN
         one("getCurrentWeatherCanada", a,
             IF a.kind = "payload" /\ ~a.full THEN Reply("toolError", "none")
             ELSE StdioTool(a, "failed", "failed"))
    [] program = "stdio" /\ h = "get-canada-weather-forecast" ->
         LET a == getForecastCanada(env, rs) IN
         one("getForecastCanada", a, StdioTool(a, "failed", "empty"))
    [] program = "express" /\ h = "usaWeatherAlerts" ->
         LET a == getUSWeatherAlerts(env, rs) IN
         one("getUSWeatherAlerts", a, Controller(a, "empty", "empty"))
    [] program = "express" /\ h = "usaWeatherForecast" ->
         LET a == getUSWeatherForecast(env, rs) IN
         one("getUSWeatherForecast", a, Controller(a, "unsupported", "empty"))
    [] program = "express" /\ h = "canadaCurrentWeather" ->
         LET a == getCurrentWeatherCanada(env, rs) IN
         one("getCurrentWeatherCanada", a,
             IF a.kind = "payload" /\ ~a.full THEN Reply("http500", "failed")
             ELSE Controller(a, "failed", "failed"))
    [] program = "express" /\ h = "canadaWeatherForecast" ->
         LET a == getForecastCanada(env, rs) IN
         one("getForecastCanada", a, Controller(a, "failed", "empty"))
    [] OTHER -> [adapters |-> <<>>, reply |-> NoReply]

\* ---- capability registration by transport type
MaxInstances == 2

TransportTypes == {"SSE", "HTTP"}

USTools == {"get-alerts", "get-forecast"}

\* The tools registered under transportType === "HTTP".
CanadianTools(program) ==
  IF program = "unified"
  THEN {"get-canada-current-weather", "get-canada-forecast", "search-canada-locations"}
  ELSE {"get-canada-current-weather", "get-canada-climate-summary",
        "get-canada-weather-stations"}

WeatherData == "file:///data.json"

\* new McpServer(...)
NoCapabilities == [tools |-> {}, resources |-> {}, prompts |-> {}]

RegisterTools(s, guard, names) == IF guard THEN [s EXCEPT !.tools = @ \cup names] ELSE s

RegisterResource(s, guard, uri) == IF guard THEN [s EXCEPT !.resources = @ \cup {uri}] ELSE s

RegisterPrompt(s, name) == [s EXCEPT !.prompts = @ \cup {name}]

\* UnifiedMCPServer.ts: the registrations in the order of the code.
unifiedMCPServer(transportType) ==
  LET us == RegisterTools(NoCapabilities, transportType = "SSE", USTools)
      data == RegisterResource(us, transportType = "HTTP", WeatherData)
      prompt == RegisterPrompt(data, "weather-assistant")
  IN RegisterTools(prompt, transportType = "HTTP", CanadianTools("unified"))

\* project_2/server/src/index.ts: registerResource is outside the two ifs.
createWeatherServer(transportType) ==
  LET us == RegisterTools(NoCapabilities, transportType = "SSE", USTools)
      data == RegisterResource(us, TRUE, WeatherData)
      prompt == RegisterPrompt(data, "weather-assistant")
  IN RegisterTools(prompt, transportType = "HTTP", CanadianTools("monolith"))

\* The programs whose server instances are made per session from a transport
\* type.
PerTransport == {"unified", "monolith"}

\* GET /sse and the initialize request of POST /http make a server instance.
connect(transportType) ==
  /\ proc.up = "serving"
  /\ proc.program \in PerTransport
  /\ Len(proc.instances) < MaxInstances
  /\ LET server == IF proc.program = "unified" THEN unifiedMCPServer(transportType)
                   ELSE createWeatherServer(transportType)
     IN proc' = [proc EXCEPT !.instances =
                   Append(@, [transportType |-> transportType, tools |-> server.tools,
                              resources |-> server.resources, prompts |-> server.prompts])]
  /\ UNCHANGED <<svars, cvars, chat>>

\* The handlers a client of the process can reach.
Callable ==
  IF proc.program \in PerTransport
  THEN Handlers(proc.program) \cap
         UNION {proc.instances[k].tools : k \in 1 .. Len(proc.instances)}
  ELSE Handlers(proc.program)

\* The variables a program throws on at import time when they are unset.
StartupChecks(program) ==
  IF program = "unified" THEN {"WEATHERAPI_KEY", "WEATHERAPI_URL"} ELSE {}

\* node build/index.js in an environment.
start(program, env) ==
  /\ proc.up = "off"
  /\ proc' = [NoProc EXCEPT !.program = program, !.env = env,
                            !.up = IF StartupChecks(program) \subseteq env
                                   THEN "serving" ELSE "failed"]
  /\ UNCHANGED <<svars, cvars, chat>>

\* The bearer token of a request: none, the configured secret, another one.
Tokens == {"none", "secret", "wrong"}

\* middleware(req, res, next) of project_2/server.
middleware(env, token) ==
  IF token = "none" THEN "http401"
  ELSE IF "CLIENT_ACCESS_TOKEN" \notin env \/ token # "secret" THEN "http403"
  ELSE "next"

\* The routes of project_2/server and of the project_3 Express API are behind
\* the middleware; the Streamable HTTP server and the stdio server have none.
Admitted(program, env, token) ==
  IF program \in {"unified", "express"} THEN middleware(env, token) ELSE "next"

\* A request with a bearer token for the handler h, in the environment env, on
\* the upstream responses rs that have arrived.
Answer(program, h, env, token, rs) ==
  LET gate == Admitted(program, env, token) IN
  IF gate # "next" THEN [adapters |-> <<>>, reply |-> Reply(gate, "none")]
  ELSE Handle(program, h, env, rs)

\* A tool call or an API request arrives and runs up to its first upstream call.
invoke(h, token) ==
  /\ proc.up = "serving"
  /\ proc.reply.kind # "pending"
  /\ h \in Callable
  /\ LET run == Answer(proc.program, h, proc.env, token, <<>>)
     IN proc' = [proc EXCEPT !.handler = h, !.token = token, !.fetches = <<>>,
                             !.adapters = run.adapters, !.reply = run.reply]
  /\ UNCHANGED <<svars, cvars, chat>>

\* The upstream call the handler awaits ends, and the handler runs on.
fetched(r) ==
  /\ proc.up = "serving"
  /\ proc.reply.kind = "pending"
  /\ LET rs == Append(proc.fetches, r)
         run == Answer(proc.program, proc.handler, proc.env, proc.token, rs)
     IN proc' = [proc EXCEPT !.fetches = rs, !.adapters = run.adapters, !.reply = run.reply]
  /\ UNCHANGED <<svars, cvars, chat>>

Faults == {"uncaughtException", "unhandledRejection"}

\* The programs whose process.on handlers only log; the Express API server's
\* handlers call process.exit(1), and the stdio server registers none, so
\* Node ends the process.
LogsOnly == {"unified", "monolith", "streamable"}

\* An exception escapes every handler, or a rejected promise is left unhandled.
uncaught(fault) ==
  /\ proc.up = "serving"
  /\ proc' = [proc EXCEPT !.fault = fault,
                          !.up = IF proc.program \in LogsOnly THEN "serving" ELSE "exited"]
  /\ UNCHANGED <<svars, cvars, chat>>

InitWeather ==
  /\ NoServer
  /\ NoClient
  /\ chat = NoChat
  /\ proc = NoProc

NextWeather ==
  \/ \E program \in Programs, env \in Envs : start(program, env)
  \/ \E h \in UNION {Handlers(p) : p \in Programs}, token \in Tokens : invoke(h, token)
  \/ \E r \in Responses : fetched(r)
  \/ \E transportType \in TransportTypes : connect(transportType)
  \/ \E fault \in Faults : uncaught(fault)

SpecWeather == InitWeather /\ [][NextWeather]_vars

\* ---------------------------------------------------------------------------
\* Claims about the provider adapters and their callers
\* ---------------------------------------------------------------------------

\* C16: every provider adapter returns null, and neither throws nor returns a
\* payload, whenever one of its upstream HTTP calls ended in a non-2xx
\* status, in a body that is not valid JSON, or in a network error.
C16_BadUpstreamIsNull ==
  \A k \in 1 .. Len(proc.adapters) :
    (\E j \in 1 .. Len(proc.adapters[k].responses) : Bad(proc.adapters[k].responses[j]))
      => proc.adapters[k].result.kind = "null"

\* The texts that say the data could not be retrieved.
FailedTexts == {"failed", "unsupported"}

\* The handler has answered and an adapter call of the request returned null.
AdapterYieldedNull ==
  /\ proc.reply.kind \notin {"none", "pending"}
  /\ \E k \in 1 .. Len(proc.adapters) : proc.adapters[k].result.kind = "null"

\* C17: whenever a provider adapter yields null, the tool handler or HTTP
\* controller that called it answers with a normal response whose text is the
\* failed-to-retrieve message, never with the text of a successful empty
\* result and never with a protocol-level error.
C17_NullIsFailedText ==
  AdapterYieldedNull => proc.reply.kind = "normal" /\ proc.reply.text \in FailedTexts

\* ---------------------------------------------------------------------------
\* Claims about registration, start-up and process-level failures
\* ---------------------------------------------------------------------------

\* C18: what a server instance registers is a function of its transportType
\* alone: "SSE" registers exactly the US tools and no resource, "HTTP"
\* registers exactly the Canadian tools, none of them a US tool, and the
\* weather-data dataset resource; the dataset is registered for "HTTP" only.
C18_CapabilitiesByTransport ==
  \A k \in 1 .. Len(proc.instances) :
    LET s == proc.instances[k] IN
    /\ s.transportType = "SSE" => s.tools = USTools /\ s.resources = {}
    /\ s.transportType = "HTTP" =>
         /\ s.tools = CanadianTools(proc.program)
         /\ s.tools \cap USTools = {}
         /\ s.resources = {WeatherData}
    /\ \A j \in 1 .. Len(proc.instances) :
         proc.instances[j].transportType = s.transportType => proc.instances[j] = s

\* The variables a program reads from process.env, at import or in a request.
Reads(program) ==
  CASE program = "unified" -> EnvNames
    [] program = "express" ->
         {"WEATHER_USER_AGENT", "USA_WEATHER_API", "WEATHERAPI_KEY", "CLIENT_ACCESS_TOKEN"}
    [] program = "stdio" -> {"WEATHER_USER_AGENT", "USA_WEATHER_API", "WEATHERAPI_KEY"}
    [] OTHER -> {}

\* C19: every environment variable a program needs is checked when the
\* process starts, so a process that serves has them all, and no request is
\* answered differently from how it is answered in the complete environment:
\* no request-time path finds a variable missing and fails the request.
C19_EnvCheckedAtStart ==
  /\ proc.up = "serving" => Reads(proc.program) \subseteq proc.env
  /\ proc.handler # "none" =>
       proc.reply = Answer(proc.program, proc.handler, EnvNames, proc.token, proc.fetches).reply

\* The long-running HTTP servers; the weather-mcp-server on stdio is the other
\* program.
LongRunning == {"unified", "monolith", "streamable", "express"}

\* C20: after an uncaught exception or an unhandled rejection every
\* long-running HTTP server is still serving, and only the stdio program has
\* exited.
C20_HttpServersSurviveFaults ==
  proc.fault # "none" =>
    IF proc.program \in LongRunning THEN proc.up = "serving" ELSE proc.up = "exited"

\* ---------------------------------------------------------------------------
\* Claims about shutdown and about session creation
\* ---------------------------------------------------------------------------

\* C21: after a SIGINT or SIGTERM the unified server process eventually
\* reaches process.exit, also when a transport's close() throws or the
\* listener's close callback has to wait for open connections.
C21_SignalLeadsToExit == (shutdown.pc # "running") ~> (shutdown.pc = "exited")

\* The initialize requests without a session id that a handler has suspended.
Initializing == {p \in pending : p.route = "http" /\ p.init /\ ~p.known}

\* The session id of transport t was put in the Streamable HTTP store: it is
\* there, or an onclose handler has removed it since.
WasStored(t, store, removed) ==
  /\ transports[t].sessionId # NoSid
  /\ \/ /\ transports[t].sessionId \in Keys(store)
        /\ EntryOf(store, transports[t].sessionId).t = t
     \/ transports[t].sessionId \in removed

\* C22: for an initialize request without a session id, server.connect has
\* completed before transport.handleRequest is invoked; when the request is
\* answered by handleRequest the (session id, transport) pair has been put
\* in the store; and when server.connect fails handleRequest is never
\* invoked, nothing is stored and the answer is a 500.
C22_ConnectBeforeHandle ==
  [][\A p \in Initializing :
       /\ p.pc = "handleRequest" =>
            /\ transports[p.t].state # "created"
            /\ WasStored(p.t, httpTransports, removedIds)
       /\ (p.pc = "handleRequest" /\ p \notin pending') =>
            /\ lastResp' = [route |-> "http", sid |-> NoSid, init |-> TRUE, status |-> 200,
                            known |-> FALSE]
            /\ WasStored(p.t, httpTransports', removedIds')
       /\ (p.pc = "connect" /\ p \notin pending' /\ transports'[p.t].state = "created") =>
            /\ lastResp'.status = 500
            /\ httpTransports' = httpTransports
            /\ \A q \in pending' : q.t # p.t
            /\ transports'[p.t].sessionId = NoSid]_vars

\* An initialize request has been answered by handleRequest and its session is
\* in the store.
C22_Witness ==
  /\ lastResp = [route |-> "http", sid |-> NoSid, init |-> TRUE, status |-> 200, known |-> FALSE]
  /\ \E t \in DOMAIN transports :
       /\ transports[t].kind = "http"
       /\ transports[t].sessionId \in Keys(httpTransports)
       /\ Initializing = {}

\* The entries of both stores, each with the kind of its store.
Stored(sse, http) ==
  {[kind |-> "sse", sid |-> sse[i].sid, t |-> sse[i].t] : i \in DOMAIN sse} \cup
  {[kind |-> "http", sid |-> http[i].sid, t |-> http[i].t] : i \in DOMAIN http}

\* Every entry maps a session id to the transport that carries that id, no
\* two entries share an id or a transport, one server instance was made per
\* transport, and every session that was initialized and has not closed is
\* in its store.
SessionsApart(sse, http, ts, n) ==
  /\ \A e \in Stored(sse, http) :
       /\ ts[e.t].kind = e.kind
       /\ ts[e.t].sessionId = e.sid
       /\ \A f \in Stored(sse, http) : (f.sid = e.sid \/ f.t = e.t) => f = e
  /\ Len(sse) + Len(http) = Cardinality(Stored(sse, http))
  /\ n = Len(ts)
  /\ \A t \in DOMAIN ts :
       (ts[t].sessionId # NoSid /\ ts[t].state # "closed") =>
         [kind |-> ts[t].kind, sid |-> ts[t].sessionId, t |-> t] \in Stored(sse, http)

\* C23: when session-creating requests are handled with their awaits
\* interleaved in any order, every one of them ends up in its store under a
\* session id of its own, mapped to its own transport and server instance,
\* and the step that stores one session leaves every other entry as it was.
C23_ConcurrentInitsApart ==
  [][/\ SessionsApart(sseTransports', httpTransports', transports', servers')
     /\ Len(sseTransports') + Len(httpTransports') > Len(sseTransports) + Len(httpTransports)
          => Stored(sseTransports, httpTransports) \subseteq Stored(sseTransports', httpTransports')
    ]_vars

\* Two initialize requests are suspended in handleRequest at once, both
\* stored.
C23_Witness ==
  /\ Cardinality({p \in Initializing : p.pc = "handleRequest"}) = 2
  /\ Len(httpTransports) = 2

\* ---------------------------------------------------------------------------
\* Claims about the order of calls and the shape of the histories
\* ---------------------------------------------------------------------------

\* The stage of processQuery an awaited call belongs to.
Stage(a) ==
  CASE a \in {"listPrompts", "getPrompt"} -> 1
    [] a \in {"listResources", "readResource"} -> 2
    [] a = "complete" -> 3
    [] a = "callTool" -> 4
    [] a = "completeFinal" -> 5
    [] OTHER -> 6

\* C24: within one processQuery call the external calls come in the order
\* prompt discovery, resource discovery, first completion, tool calls, second
\* completion: the call awaited next never belongs to an earlier stage than
\* the one that has just returned or failed, no completion call and no tool
\* call has been made while discovery is still awaited, every tool call
\* follows the first completion call and precedes the second.
C24_StagesInOrder ==
  [][at \notin {"off", "ready", "returned"} =>
       /\ Stage(at') >= Stage(at)
       /\ Stage(at) <= 3 => completions = <<>> /\ calls = <<>>
       /\ Stage(at) = 3 => Len(completions') = 1 /\ calls' = <<>>
       /\ Stage(at) = 4 =>
            /\ Len(completions) = 1
            /\ completions' = completions
            /\ Len(calls') = Len(calls) + 1
       /\ Stage(at) = 5 =>
            /\ calls' = calls
            /\ Len(completions') = 2
            /\ completions'[2].calls = Len(calls)
            /\ at' = "returned"
    ]_vars

\* A call of the utils copy went through all five stages: a prompt and a
\* dataset were taken in, a tool was called, the second completion returned.
C24_Witness ==
  /\ variant = "unified"
  /\ at = "returned"
  /\ Len(completions) = 2
  /\ calls # <<>>
  /\ \E k \in 1 .. Len(wm) : wm[k].kind = "prompt"
  /\ \E k \in 1 .. Len(wm) : wm[k].kind = "query" /\ wm[k].data # <<>>

\* The US forecast implementations.
ForecastHandlers == {"get-forecast", "get-us-weather-forecast", "usaWeatherForecast"}

\* A forecast request that got past the middleware and has been answered.
ForecastAnswered ==
  /\ proc.handler \in ForecastHandlers
  /\ proc.reply.kind \notin {"none", "pending", "http401", "http403"}

\* C25: in every US forecast implementation the second upstream call is made
\* only after the grid-point call returned data holding a forecast URL; when
\* the grid-point data holds no forecast URL the answer is the "failed to
\* get forecast URL" text, when the grid-point call fails it is the
\* unsupported-location text, and in neither case is there a second call.
C25_ForecastUrlBeforeSecondCall ==
  /\ (proc.handler \in ForecastHandlers /\ Len(proc.fetches) >= 2) =>
       ~Bad(proc.fetches[1]) /\ proc.fetches[1].full
  /\ (ForecastAnswered /\ proc.fetches # <<>> /\ ~Bad(proc.fetches[1]) /\ ~proc.fetches[1].full) =>
       proc.reply = Reply("normal", "noForecastUrl") /\ Len(proc.fetches) = 1
  /\ (ForecastAnswered /\ (proc.fetches = <<>> \/ Bad(proc.fetches[1]))) =>
       proc.reply = Reply("normal", "unsupported") /\ Len(proc.fetches) <= 1

\* The second completion call is about to be issued or has been issued (it
\* leaves the history as it received it).
SecondCompletion == at = "completeFinal" \/ Len(completions) = 2

\* C26: whenever processQuery issues its second completion call, the last
\* message of the history holds exactly one tool_result per tool_use item of
\* the first response, in the same order and with the same ids, and the
\* message before it is the assistant message carrying those items; also
\* for names the catalog does not hold and for tool calls that fail.
C26_ResultsMatchToolUses ==
  SecondCompletion =>
    /\ Len(wm) >= 2
    /\ LET last == wm[Len(wm)]
           prev == wm[Len(wm) - 1]
       IN
         /\ last.role = "user" /\ last.kind = "tool_result"
         /\ Len(last.data) = Len(toolUses)
         /\ \A k \in 1 .. Len(toolUses) : last.data[k].tool_use_id = toolUses[k].id
         /\ prev.role = "assistant" /\ prev.kind = "tool_use"
         /\ prev.data = toolUses
         /\ toolUses # <<>>

\* The second completion call was issued after a first response with two
\* items, one the catalog does not hold and one whose tool call failed.
C26_Witness ==
  /\ Len(completions) = 2
  /\ Len(toolUses) = 2
  /\ \E k \in 1 .. 2 : wm[Len(wm)].data[k].kind = "notFound"
  /\ \E k \in 1 .. 2 : wm[Len(wm)].data[k].kind = "error"

\* The assistant messages of call q in a history that carry the content of
\* that call's first response (the one holding the tool_use items).
FirstResponseMessages(msgs, q) ==
  {k \in 1 .. Len(msgs) : msgs[k].q = q /\ msgs[k].role = "assistant" /\ msgs[k].of = "first"}

\* C27: in the single-server client's processQuery, whatever the number of
\* tool_use items of the first response, every tool_result message in the
\* history comes right after an assistant message that holds the tool_use
\* item with the same id, and the assistant message of the first response
\* is appended exactly once.
C27_ResultFollowsItsToolUse ==
  /\ \A k \in 1 .. Len(chat.wm) :
       chat.wm[k].kind = "tool_result" =>
         /\ k > 1
         /\ chat.wm[k - 1].role = "assistant"
         /\ chat.wm[k - 1].q = chat.wm[k].q
         /\ chat.wm[k - 1].of = "first"
  /\ \A q \in 1 .. MaxQueries :
       (\E k \in 1 .. Len(chat.wm) : chat.wm[k].q = q /\ chat.wm[k].kind = "tool_result") =>
         Cardinality(FirstResponseMessages(chat.wm, q)) = 1

\* GET /sse handlers suspended at await server.connect(transport).
Establishing == {p \in pending : p.route = "sse" /\ p.pc = "connect"}

\* C28: if establishing an SSE stream fails (server.connect throws in the
\* GET /sse handler), the session id stored for that attempt is no longer in
\* the SSE store once the handler returns; the store never keeps an entry
\* for a transport that was not connected to a server.
C28_FailedStreamNotStored ==
  [][/\ \A p \in Establishing :
          (p \notin pending' /\ transports'[p.t].state = "created") =>
            p.sid \notin Keys(sseTransports')
     /\ \A i \in DOMAIN sseTransports' :
          transports'[sseTransports'[i].t].state = "created" =>
            \E q \in pending' : q.route = "sse" /\ q.pc = "connect" /\ q.t = sseTransports'[i].t]_vars

\* The step in which the single-file server's sweep leaves its last loop and
\* calls httpServer.close().
SweepFinishes == layout = "monolith" /\ shutdown.pc # "listener" /\ shutdown'.pc = "listener"

\* Every close() the sweep called had its effect: the transport is closed
\* and its entry is gone.
ClosesSucceeded(sd, ts, sse, http) ==
  \A t \in sd.closeCalls :
    ts[t].state = "closed" /\ ts[t].sessionId \notin Keys(sse) \cup Keys(http)

\* C29: once the unified server's shutdown sweep has finished with every
\* close() succeeding, both session stores are empty and no transport is
\* left open, also when /sse or initialize requests created sessions while
\* the sweep was suspended at an await.
C29_SweepLeavesNothingOpen ==
  [][(SweepFinishes /\ ClosesSucceeded(shutdown', transports', sseTransports', httpTransports')) =>
       /\ sseTransports' = <<>>
       /\ httpTransports' = <<>>
       /\ \A t \in DOMAIN transports' :
            transports'[t].sessionId # NoSid => transports'[t].state # "connected"]_vars

\* The step in which a processQuery call of the single-server client returns
\* the apology string.
ChatApologizes ==
  /\ chat.at # "idle"
  /\ chat'.at = "idle"
  /\ Last(chat'.outcomes) = "apology"

\* C30: a call to the stateful client's processQuery that ends in the
\* apology string leaves the stored history exactly as it was before the
\* call: none of the prompt, user, assistant or tool_result messages built
\* during the failed call is retained.
C30_ApologyKeepsHistory ==
  [][ChatApologizes =>
       /\ chat'.messages = chat.before
       /\ chat'.messages = chat.messages
       /\ \A k \in 1 .. Len(chat'.messages) : chat'.messages[k].q # chat.q
       /\ Len(chat.wm) > Len(chat'.messages)]_vars

\* A second call has ended in the apology after a tool round, with the first
\* call's messages stored.
C30_Witness ==
  /\ chat.at = "idle"
  /\ chat.outcomes # <<>>
  /\ Last(chat.outcomes) = "apology"
  /\ chat.before # <<>>
  /\ chat.messages = chat.before
  /\ \E k \in 1 .. Len(chat.wm) : chat.wm[k].q = chat.q /\ chat.wm[k].kind = "tool_result"

====
